---- MODULE Spec2Model ----
(***************************************************************************)
(* A model of the synthesis-and-encoding core of the sweep generator:      *)
(*   - js/audio/wav-encoder.js : encodeWAV, writeSampleData,               *)
(*                               encodeBextPayload                         *)
(*   - js/generators/mls.js    : generateMLS (src/unnamed/part_001)        *)
(* Byte offsets are the 0-based offsets of the source; a buffer is a       *)
(* sequence of bytes whose element o + 1 is the byte at offset o.          *)
(* A sample is a dyadic rational n / SampleDen, held as its numerator n.   *)
(***************************************************************************)
EXTENDS Integers, Sequences, FiniteSets, TLC

VARIABLES
    wavReq,     \* the arguments of encodeWAV of this run: [samples, params]
    wavCalls,   \* the results of the last two calls of encodeWAV
    mls,        \* the frame of the running generateMLS call
    mlsKept,    \* the sequence a caller of generateMLS kept from an earlier call
    wk,         \* the worker: the frame of self.onmessage and what it posted
    call        \* one call of a utility function: its arguments and result

wavVars == <<wavReq, wavCalls>>
mlsVars == <<mls>>
vars == <<wavReq, wavCalls, mls, mlsKept, wk, call>>

----------------------------------------------------------------------------
(* Bounds of the model *)

MaxFrames == 2      \* longest sample array handed to encodeWAV
SampleBits == 4     \* samples are multiples of 2^-SampleBits
MaxReps == 2        \* largest `repetitions` handed to generateMLS
MaxKeptOrder == 10  \* the sample array is kept in full up to this order

SampleDen == 2 ^ SampleBits

----------------------------------------------------------------------------
(* Arithmetic of the JavaScript built-ins the code uses *)

Min(a, b) == IF a < b THEN a ELSE b
Max(a, b) == IF a > b THEN a ELSE b

\* Math.round of the rational p / q (q > 0): the nearest integer, a tie
\* going towards +infinity
MathRound(p, q) == (2 * p + q) \div (2 * q)

\* Math.max(-1, Math.min(1, sample)) on the numerator of a sample
Clamp(n) == Max(-SampleDen, Min(SampleDen, n))

\* DataView.setUint16 / setUint32 / setInt16, little-endian: the value is
\* taken modulo 2^16 (2^32) and stored low byte first
U16LE(v) == <<v % 256, (v \div 256) % 256>>
U32LE(v) == <<v % 256, (v \div 256) % 256, (v \div 65536) % 256,
              (v \div 16777216) % 256>>
Int16LE(v) == U16LE(v % 65536)

\* the position of the highest set bit of m >= 1
RECURSIVE HighBit(_)
HighBit(m) == IF m < 2 THEN 0 ELSE 1 + HighBit(m \div 2)

\* DataView.setFloat32(offset, n / SampleDen, true): the IEEE 754 single
\* of a dyadic rational with |n| < 2^24 is exact: sign, biased exponent,
\* 23 fraction bits, stored low byte first
Float32LE(n) ==
    IF n = 0 THEN <<0, 0, 0, 0>>
    ELSE LET m == IF n < 0 THEN -n ELSE n
             p == HighBit(m)
             biased == p - SampleBits + 127
             frac == (m - 2 ^ p) * 2 ^ (23 - p)
             sign == IF n < 0 THEN 1 ELSE 0
         IN  <<frac % 256, (frac \div 256) % 256,
               ((biased % 2) * 128) + (frac \div 65536),
               (sign * 128) + (biased \div 2)>>

\* TextEncoder.encode: UTF-8 of a string of code points below 2048
RECURSIVE Utf8(_)
Utf8(str) ==
    IF str = <<>> THEN <<>>
    ELSE IF Len(str) = 1
    THEN LET c == str[1]
         IN  IF c < 128 THEN <<c>> ELSE <<192 + (c \div 64), 128 + (c % 64)>>
    ELSE Utf8(SubSeq(str, 1, Len(str) \div 2))
         \o Utf8(SubSeq(str, Len(str) \div 2 + 1, Len(str)))

\* String.substring(0, n) and TypedArray.subarray(0, n)
Prefix(s, n) == SubSeq(s, 1, Min(n, Len(s)))

\* two decimal digits as ASCII
Digits2(v) == <<48 + ((v \div 10) % 10), 48 + (v % 10)>>

\* now.toISOString().substring(0, 10): "yyyy-mm-dd"; a clock reading
\* is [day, sec] counted from 1970-01-01 00:00:00, within that month
DateStr(t) == <<49, 57, 55, 48, 45, 48, 49, 45>> \o Digits2(t.day + 1)

\* now.toTimeString().substring(0, 8): "hh:mm:ss"; the readings stay
\* within the first minute of the day
TimeStr(t) == <<48, 48, 58, 48, 48, 58>> \o Digits2(t.sec)

----------------------------------------------------------------------------
(* Buffers *)

\* new ArrayBuffer(n): zero-initialized
ZeroBuffer(n) == [i \in 1..n |-> 0]

\* the bytes `bs` stored at offset `off` of `buf` (the caller has checked
\* that they fit)
SetBytes(buf, off, bs) ==
    SubSeq(buf, 1, off) \o bs \o SubSeq(buf, off + Len(bs) + 1, Len(buf))

\* parsing: the little-endian unsigned integers at an offset
GetU16(buf, off) == buf[off + 1] + 256 * buf[off + 2]
GetU32(buf, off) == buf[off + 1] + 256 * buf[off + 2] + 65536 * buf[off + 3]
                    + 16777216 * buf[off + 4]
GetTag(buf, off) == SubSeq(buf, off + 1, off + 4)

----------------------------------------------------------------------------
(* js/audio/wav-encoder.js *)

\* the four-character chunk identifiers, as character codes
RIFF == <<82, 73, 70, 70>>
WAVE == <<87, 65, 86, 69>>
BEXT == <<98, 101, 120, 116>>
FMT == <<102, 109, 116, 32>>
FACT == <<102, 97, 99, 116>>
DATA == <<100, 97, 116, 97>>

\* 'SineSweepGenerator', the default originator
DefaultOriginator ==
    <<83, 105, 110, 101, 83, 119, 101, 101, 112, 71, 101, 110, 101, 114, 97,
      116, 111, 114>>

\* A writer is the buffer under construction with the running `offset` of
\* the code: [buf, off, ok, progress].  ok becomes FALSE when a DataView
\* setter or a TypedArray.set is given a range outside the buffer (a
\* RangeError).  Put stands for writeString and for a run of setters each
\* followed by `offset += <the bytes it wrote>`: the bytes go to
\* consecutive offsets.
Put(w, bs) ==
    IF ~w.ok \/ w.off + Len(bs) > Len(w.buf)
    THEN [w EXCEPT !.ok = FALSE]
    ELSE [w EXCEPT !.buf = SetBytes(w.buf, w.off, bs), !.off = w.off + Len(bs)]

\* `offset += n` without a write
Skip(w, n) == [w EXCEPT !.off = w.off + n]

\* writeFixedString(bytes, offset, str, maxLen); offset += maxLen, on a
\* region that is still zero: the maxLen bytes of the field
writeFixedString(str, maxLen) ==
    Prefix(Utf8(Prefix(str, maxLen)), maxLen)
    \o ZeroBuffer(maxLen - Len(Prefix(Utf8(Prefix(str, maxLen)), maxLen)))

\* meta.x || dflt for a string: the empty string is falsy
OrDefault(str, dflt) == IF str = <<>> THEN dflt ELSE str

\* encodeBextPayload(meta), run at clock reading t.  The fields follow one
\* another from offset 0, so the 602 fixed bytes are written as one run.
encodeBextPayload(meta, t) ==
    LET codingHistoryBytes == Utf8(meta.codingHistory)
        fixedSize == 602
        totalSize == fixedSize + Len(codingHistoryBytes)
        w0 == [buf |-> ZeroBuffer(totalSize), off |-> 0, ok |-> TRUE,
               progress |-> <<>>]
        w1 == Put(w0, writeFixedString(meta.description, 256)
                      \o writeFixedString(OrDefault(meta.originator, DefaultOriginator), 32)
                      \o writeFixedString(meta.originatorReference, 32)
                      \o writeFixedString(DateStr(t), 10)
                      \o writeFixedString(TimeStr(t), 8)
                      \o ZeroBuffer(8)
                      \o U16LE(1))
        w2 == Skip(Skip(w1, 64), 190)
        w3 == Put(w2, codingHistoryBytes)
    IN  w3.buf

\* Sample16 scaling by 32768: full scale overflows the 16-bit range
Sample16_Scale32768(n) == Int16LE(MathRound(Clamp(n) * 32768, SampleDen))

\* the 16-bit branch of writeSampleData: the bytes of one sample
Sample16(n) == Int16LE(MathRound(Clamp(n) * 32767, SampleDen))

\* the 24-bit branch of writeSampleData: the bytes of one sample
Sample24(n) ==
    LET intVal == MathRound(Clamp(n) * 8388607, SampleDen)
        u == IF intVal < 0 THEN intVal + 16777216 ELSE intVal
    IN  <<u % 256, (u \div 256) % 256, (u \div 65536) % 256>>

\* the body of the channel loop of writeSampleData: the bytes written for
\* one sample (none when no branch matches)
SampleBytes(n, bitDepth, isFloat) ==
    IF bitDepth = 16 THEN Sample16(n)
    ELSE IF bitDepth = 24 THEN Sample24(n)
    ELSE IF bitDepth = 32 /\ isFloat THEN Float32LE(n)
    ELSE <<>>

\* the inner loop over the channels of one frame
RECURSIVE WriteFrame(_, _, _, _, _, _, _)
WriteFrame(w, channelData, frame, ch, numChannels, bitDepth, isFloat) ==
    IF ch >= numChannels THEN w
    ELSE WriteFrame(Put(w, SampleBytes(channelData[ch + 1][frame + 1],
                                       bitDepth, isFloat)),
                    channelData, frame, ch + 1, numChannels, bitDepth, isFloat)

\* onProgress(num / den), when a callback was supplied: the fraction is
\* recorded as <<num, den>>
Report(w, onProgress, num, den) ==
    IF onProgress THEN [w EXCEPT !.progress = Append(w.progress, <<num, den>>)]
    ELSE w

\* the outer loop over the frames, from `frame` on: the samples of every
\* frame at consecutive offsets, and the progress report after every frame
\* with (frame & 0xFFFF) = 0.  Every frame takes the same number of bytes,
\* so the bytes of the loop are laid out by index
WriteFrames(w, channelData, frame, totalFrames, numChannels, bitDepth, isFloat, onProgress) ==
    LET scratch == [buf |-> ZeroBuffer(4 * numChannels), off |-> 0,
                    ok |-> TRUE, progress |-> <<>>]
        FrameBytes(f) ==
            LET x == WriteFrame(scratch, channelData, f, 0, numChannels,
                                bitDepth, isFloat)
            IN  SubSeq(x.buf, 1, x.off)
        count == IF totalFrames > frame THEN totalFrames - frame ELSE 0
        frameSize == IF count = 0 THEN 0 ELSE Len(FrameBytes(frame))
        first == ((frame + 65535) \div 65536) * 65536
        reports == IF onProgress /\ totalFrames > first
                   THEN [q \in 1..((totalFrames - 1 - first) \div 65536 + 1) |->
                            <<first + (q - 1) * 65536, totalFrames>>]
                   ELSE <<>>
        x == Put(w, [j \in 1..(count * frameSize) |->
                        FrameBytes(frame + (j - 1) \div frameSize)
                            [((j - 1) % frameSize) + 1]])
    IN  [x EXCEPT !.progress = @ \o reports]

\* writeSampleData reporting progress before the write and going on to the
\* next frame: with a callback, frame 0 is never written
writeSampleData_ProgressSkips(w, channelData, totalFrames, numChannels, bitDepth, isFloat, onProgress) ==
    Report(WriteFrames(Report(w, onProgress /\ totalFrames > 0, 0, totalFrames),
                       channelData, IF onProgress THEN 1 ELSE 0, totalFrames,
                       numChannels, bitDepth, isFloat, FALSE),
           onProgress, 1, 1)

\* writeSampleData(view, offset, channelData, totalFrames, numChannels,
\*                 bitDepth, isFloat, onProgress): the writer after the
\* loop and the closing onProgress(1.0); its off is the returned offset
writeSampleData(w, channelData, totalFrames, numChannels, bitDepth, isFloat, onProgress) ==
    Report(WriteFrames(w, channelData, 0, totalFrames, numChannels, bitDepth,
                       isFloat, onProgress),
           onProgress, 1, 1)

\* the sizes encodeWAV computes before it allocates the buffer
BytesPerSample(bitDepth) == bitDepth \div 8
IsFloat(bitDepth, format) == bitDepth = 32 /\ format = "float"
IsExtensible(bitDepth) == bitDepth = 24 \/ bitDepth = 32
DataSize(totalFrames, blockAlign) == totalFrames * blockAlign
\* FmtPayloadSize counting a cbSize field the PCM branch never writes
FmtPayloadSize_Pcm18(isExtensible) == IF isExtensible THEN 40 ELSE 18
FmtPayloadSize(isExtensible) == IF isExtensible THEN 40 ELSE 16
\* NeedsFact forgetting the extensible PCM format
NeedsFact_FloatOnly(isExtensible, isFloat) == isFloat
NeedsFact(isExtensible, isFloat) == isExtensible \/ isFloat
BextChunkSize(byteLength) ==
    8 + byteLength + (IF byteLength % 2 # 0 THEN 1 ELSE 0)
DataChunkSize(dataSize) == 8 + dataSize

\* the fields of the fmt chunk
FormatTag(isExtensible, isFloat) ==
    IF isExtensible THEN 65534 ELSE IF isFloat THEN 3 ELSE 1
\* ChannelMask with the two masks exchanged
ChannelMask_Swapped(numChannels) == IF numChannels = 1 THEN 3 ELSE 4
ChannelMask(numChannels) == IF numChannels = 1 THEN 4 ELSE 3
SubFormatCode(isFloat) == IF isFloat THEN 3 ELSE 1
GuidTail == <<128, 0, 0, 170, 0, 56, 155, 113>>

\* the choice of the per-channel arrays
ChannelData(samples, params) ==
    IF params.hasChannels THEN params.channels
    ELSE IF params.numChannels = 1 THEN <<samples>>
    ELSE IF params.channelMode = "stereo-sync" /\ params.hasSync
         THEN <<samples, params.syncChannel>>
    ELSE <<samples, samples>>

\* encodeWAV(samples, params) run at clock reading t.  The result carries
\* the buffer, whether the call returned it, the value of `offset` at the
\* start of every chunk and after the last write, and the progress reports.
encodeWAV(samples, params, onProgress, t) ==
    LET bitDepth == params.bitDepth
        numChannels == params.numChannels
        bytesPerSample == BytesPerSample(bitDepth)
        blockAlign == bytesPerSample * numChannels
        avgBytesPerSec == params.sampleRate * blockAlign
        isFloat == IsFloat(bitDepth, params.format)
        isExtensible == IsExtensible(bitDepth)
        channelData == ChannelData(samples, params)
        totalFrames == Len(samples)
        dataSize == DataSize(totalFrames, blockAlign)
        fmtPayloadSize == FmtPayloadSize(isExtensible)
        fmtChunkSize == 8 + fmtPayloadSize
        needsFact == NeedsFact(isExtensible, isFloat)
        factChunkSize == IF needsFact THEN 12 ELSE 0
        bextPayload == IF params.hasMeta
                       THEN encodeBextPayload(params.bwfMetadata, t) ELSE <<>>
        bextChunkSize == IF params.hasMeta
                         THEN BextChunkSize(Len(bextPayload)) ELSE 0
        dataChunkSize == DataChunkSize(dataSize)
        riffPayloadSize == 4 + bextChunkSize + fmtChunkSize + factChunkSize
                           + dataChunkSize
        fileSize == 8 + riffPayloadSize
        w0 == [buf |-> ZeroBuffer(fileSize), off |-> 0, ok |-> TRUE,
               progress |-> <<>>]
        \* ---- RIFF header ----
        w1 == Put(w0, RIFF \o U32LE(riffPayloadSize) \o WAVE)
        \* ---- bext chunk ----
        w2 == IF params.hasMeta
              THEN Skip(Put(Put(w1, BEXT \o U32LE(Len(bextPayload))), bextPayload),
                        IF Len(bextPayload) % 2 # 0 THEN 1 ELSE 0)
              ELSE w1
        \* ---- fmt chunk ----
        w3a == Put(w2, FMT \o U32LE(fmtPayloadSize)
                       \o U16LE(FormatTag(isExtensible, isFloat))
                       \o U16LE(numChannels)
                       \o U32LE(params.sampleRate)
                       \o U32LE(avgBytesPerSec)
                       \o U16LE(blockAlign)
                       \o U16LE(bitDepth))
        w3 == IF isExtensible
              THEN Put(w3a, U16LE(22)
                            \o U16LE(bitDepth)
                            \o U32LE(ChannelMask(numChannels))
                            \o U32LE(SubFormatCode(isFloat))
                            \o U16LE(0)
                            \o U16LE(16)
                            \o GuidTail)
              ELSE w3a
        \* ---- fact chunk ----
        w4 == IF needsFact
              THEN Put(w3, FACT \o U32LE(4) \o U32LE(totalFrames))
              ELSE w3
        \* ---- data chunk ----
        w5 == Put(w4, DATA \o U32LE(dataSize))
        w6 == writeSampleData(w5, channelData, totalFrames, numChannels,
                              bitDepth, isFloat, onProgress)
    IN  [returned |-> w6.ok,
         buffer |-> IF w6.ok THEN w6.buf ELSE <<>>,
         at |-> [bext |-> w1.off, fmt |-> w2.off, fact |-> w3.off,
                 data |-> w4.off, samples |-> w5.off, end |-> w6.off],
         progress |-> w6.progress,
         onProgress |-> onProgress,
         time |-> t]

----------------------------------------------------------------------------
(* The encoder as a state machine: a request is fixed when the run starts; *)
(* the program encodes it, perhaps more than once, while the clock runs.   *)

\* all sequences over S of length n
SeqsOfLen(S, n) == [1..n -> S]

\* sample numerators of the encoder runs: one below -1, one tie of Math.round
WavSampleSet == {-SampleDen - 1, SampleDen \div 2}

\* the second channel of the two-array layouts holds full-scale samples
OtherSampleSet == {SampleDen}

\* every numerator in [-2, 2]
AllSampleSet == (-2 * SampleDen)..(2 * SampleDen)

SampleRates == {48000}
BitDepths == {8, 16, 24, 32}
Formats == {"pcm", "float"}

\* a coding history of 0, 1 and 2 bytes: '', 'A', and U+00E9
Histories == {<<>>, <<65>>, <<233>>}

\* the description 'ESS'
Description == <<69, 83, 83>>

NoMeta == [description |-> <<>>, originator |-> <<>>,
           originatorReference |-> <<>>, codingHistory |-> <<>>]
Metas == {[description |-> Description, originator |-> <<>>,
           originatorReference |-> <<>>, codingHistory |-> h] : h \in Histories}

\* the ways the callers lay the channels out: mono, stereo-identical,
\* stereo-sync through syncChannel, and pre-built channel arrays
Layouts(samples, other) ==
    {[numChannels |-> 1, channelMode |-> "mono", hasChannels |-> FALSE,
      channels |-> <<>>, hasSync |-> FALSE, syncChannel |-> <<>>],
     [numChannels |-> 2, channelMode |-> "stereo-identical",
      hasChannels |-> FALSE, channels |-> <<>>, hasSync |-> FALSE,
      syncChannel |-> <<>>],
     [numChannels |-> 2, channelMode |-> "stereo-sync", hasChannels |-> FALSE,
      channels |-> <<>>, hasSync |-> TRUE, syncChannel |-> other],
     [numChannels |-> 2, channelMode |-> "stereo-alternate",
      hasChannels |-> TRUE, channels |-> <<samples, other>>,
      hasSync |-> FALSE, syncChannel |-> <<>>]}

\* the sample array with each of its layouts, for n frames over S
ChannelSets(S, n) ==
    UNION {{[samples |-> smp, layout |-> lay] : lay \in Layouts(smp, oth)} :
           <<smp, oth>> \in SeqsOfLen(S, n) \X SeqsOfLen(OtherSampleSet, n)}

\* the requests over a set of sample values, of frame counts, of bit depths
\* and of metadata blocks
Requests(S, frameCounts, depths, metas) ==
    {[samples |-> cs.samples,
      params |-> [sampleRate |-> sr, bitDepth |-> bd, format |-> fm,
                  numChannels |-> cs.layout.numChannels,
                  channelMode |-> cs.layout.channelMode,
                  hasChannels |-> cs.layout.hasChannels,
                  channels |-> cs.layout.channels,
                  hasSync |-> cs.layout.hasSync,
                  syncChannel |-> cs.layout.syncChannel,
                  hasMeta |-> m # NoMeta, bwfMetadata |-> m]] :
        <<cs, sr, bd, fm, m>> \in
            (UNION {ChannelSets(S, n) : n \in frameCounts})
            \X SampleRates \X depths \X Formats \X metas}

MlsIdle == [pc |-> "idle"]

\* nothing kept of an earlier generateMLS call, no message at the worker,
\* no utility call
NoneKept == [order |-> 0, first |-> <<>>, calls |-> 0]
WkIdle == [pc |-> "idle"]
NoCall == [fn |-> "none"]

\* the readings `new Date()` gives: two that differ in date and in time
Times == {[day |-> 0, sec |-> 0], [day |-> 1, sec |-> 1]}

InitWav ==
    /\ wavReq \in Requests(WavSampleSet, 0..MaxFrames, BitDepths,
                          Metas \cup {NoMeta})
    /\ wavCalls = <<>>
    /\ mls = MlsIdle
    /\ mlsKept = NoneKept
    /\ wk = WkIdle
    /\ call = NoCall

\* a caller runs encodeWAV on the request, with or without a progress
\* callback, while the clock reads t; the results of the last two calls
\* are kept
EncodeWAV(onProgress, t) ==
    /\ wavCalls' = (IF Len(wavCalls) < 2 THEN wavCalls ELSE Tail(wavCalls))
                   \o <<encodeWAV(wavReq.samples, wavReq.params, onProgress, t)>>
    /\ UNCHANGED <<wavReq, mls, mlsKept, wk, call>>

NextWav == \E onProgress \in BOOLEAN, t \in Times : EncodeWAV(onProgress, t)

SpecWav == InitWav /\ [][NextWav]_vars

\* the same machine started on one-frame requests whose sample ranges over
\* every numerator in [-2, 2]
InitPcm ==
    /\ wavReq \in Requests(AllSampleSet, {1}, {16, 24}, {NoMeta})
    /\ wavCalls = <<>>
    /\ mls = MlsIdle
    /\ mlsKept = NoneKept
    /\ wk = WkIdle
    /\ call = NoCall

SpecPcm == InitPcm /\ [][NextWav]_vars

----------------------------------------------------------------------------
(* js/generators/mls.js *)

\* the tap table with an entry for order 9 as well
MLS_TAPS_With9 ==
    (9 :> <<9, 5>>) @@ (10 :> <<10, 7>>) @@ (11 :> <<11, 9>>)
    @@ (12 :> <<12, 11, 10, 4>>) @@ (13 :> <<13, 12, 11, 8>>)
    @@ (14 :> <<14, 13, 12, 2>>) @@ (15 :> <<15, 14>>)
    @@ (16 :> <<16, 15, 13, 4>>) @@ (17 :> <<17, 14>>) @@ (18 :> <<18, 11>>)

\* the tap table, order -> 1-indexed tap positions
MLS_TAPS ==
    (10 :> <<10, 7>>) @@ (11 :> <<11, 9>>) @@ (12 :> <<12, 11, 10, 4>>)
    @@ (13 :> <<13, 12, 11, 8>>) @@ (14 :> <<14, 13, 12, 2>>)
    @@ (15 :> <<15, 14>>) @@ (16 :> <<16, 15, 13, 4>>) @@ (17 :> <<17, 14>>)
    @@ (18 :> <<18, 11>>)

\* the orders callers hand over: the supported ones and one on either side
OrdersTried == {9} \cup DOMAIN MLS_TAPS \cup {19}

\* (x >> s) & 1
Bit(x, s) == (x \div 2 ^ s) % 2

\* seqLength = (1 << order) - 1
MLSSeqLength(order) == 2 ^ order - 1

\* the register a period starts from: (1 << order) - 1, all ones
MLSInitRegister_Zero(order) == 0
MLSInitRegister(order) == 2 ^ order - 1

\* the feedback bit: the XOR of the register bits at taps[t] - 1
MLSFeedback(register, taps) ==
    Cardinality({t \in 1..Len(taps) : Bit(register, taps[t] - 1) = 1}) % 2

\* (register >> 1) | (feedback << (order - 1)); bit order - 1 of
\* register >> 1 is clear, so the OR adds
MLSShiftRegister(register, order) ==
    (register \div 2) + MLSFeedback(register, MLS_TAPS[order]) * 2 ^ (order - 1)

\* whether the model keeps the sample array of a call in full; of a longer
\* array it keeps the length and the counts of the values written
Kept(order) == order <= MaxKeptOrder

\* the locals of generateMLS once it is entered: the tap lookup, the throw
\* for an order without taps, and the allocation of the zero-filled sample
\* array
MLSEntered(order, repetitions, onProgress) ==
    IF order \notin DOMAIN MLS_TAPS
    THEN [pc |-> "threw", order |-> order]
    ELSE [pc |-> "outer", order |-> order,
          repetitions |-> repetitions, onProgress |-> onProgress,
          seqLength |-> MLSSeqLength(order),
          totalLength |-> MLSSeqLength(order) * repetitions,
          samples |-> IF Kept(order)
                      THEN ZeroBuffer(MLSSeqLength(order) * repetitions)
                      ELSE <<>>,
          written |-> 0, plus |-> 0, minus |-> 0, sequential |-> TRUE,
          rep |-> 0, i |-> 0, register |-> 0, progress |-> <<>>]

\* generateMLS is called
MLSCall(order, repetitions, onProgress) ==
    /\ mls.pc = "idle"
    /\ mls' = MLSEntered(order, repetitions, onProgress)
    /\ UNCHANGED <<wavVars, mlsKept, wk, call>>

\* the outer loop starting a period with the register as the period before
\* left it
MLSBeginRep_KeepsRegister ==
    /\ mls.pc = "outer"
    /\ mls.rep < mls.repetitions
    /\ mls' = [mls EXCEPT !.pc = "inner", !.i = 0,
                          !.register = IF mls.rep = 0
                                       THEN MLSInitRegister(mls.order) ELSE @]
    /\ UNCHANGED <<wavVars, mlsKept, wk, call>>

\* the outer loop starts a period: the register is set to all ones
MLSBeginRep ==
    /\ mls.pc = "outer"
    /\ mls.rep < mls.repetitions
    /\ mls' = [mls EXCEPT !.pc = "inner", !.i = 0,
                          !.register = MLSInitRegister(mls.order)]
    /\ UNCHANGED <<wavVars, mlsKept, wk, call>>

\* one pass of the inner loop: the sample of the low bit is stored at
\* baseIdx + i, the register is shifted, progress is reported every 2^14
\* samples
MLSShift ==
    /\ mls.pc = "inner"
    /\ mls.i < mls.seqLength
    /\ LET outputBit == mls.register % 2
           baseIdx == mls.rep * mls.seqLength
           value == IF outputBit = 1 THEN 1 ELSE -1
       IN  mls' = [mls EXCEPT
                     !.samples = IF Kept(mls.order)
                                 THEN [@ EXCEPT ![baseIdx + mls.i + 1] = value]
                                 ELSE @,
                     !.sequential = @ /\ baseIdx + mls.i = mls.written,
                     !.written = @ + 1,
                     !.plus = @ + outputBit,
                     !.minus = @ + 1 - outputBit,
                     !.register = MLSShiftRegister(mls.register, mls.order),
                     !.progress = IF mls.onProgress /\ mls.i % 16384 = 0
                                  THEN Append(@, <<baseIdx + mls.i, mls.totalLength>>)
                                  ELSE @,
                     !.i = @ + 1]
    /\ UNCHANGED <<wavVars, mlsKept, wk, call>>

\* the inner loop ends after seqLength passes
MLSEndRep ==
    /\ mls.pc = "inner"
    /\ mls.i = mls.seqLength
    /\ mls' = [mls EXCEPT !.pc = "outer", !.rep = @ + 1]
    /\ UNCHANGED <<wavVars, mlsKept, wk, call>>

\* the outer loop has ended: onProgress(1.0) and the array is returned
MLSReturn ==
    /\ mls.pc = "outer"
    /\ mls.rep = mls.repetitions
    /\ mls' = [mls EXCEPT !.pc = "done",
                          !.progress = IF mls.onProgress
                                       THEN Append(@, <<1, 1>>) ELSE @]
    /\ UNCHANGED <<wavVars, mlsKept, wk, call>>

\* no encoder request is pending while a sequence is generated
IdleRequest == [samples |-> <<>>, params |-> [hasMeta |-> FALSE]]

InitMLS ==
    /\ wavReq = IdleRequest
    /\ wavCalls = <<>>
    /\ mls = MlsIdle
    /\ mlsKept = NoneKept
    /\ wk = WkIdle
    /\ call = NoCall

NextMLS ==
    \/ \E order \in OrdersTried, repetitions \in 1..MaxReps, onProgress \in BOOLEAN :
           MLSCall(order, repetitions, onProgress)
    \/ MLSBeginRep
    \/ MLSShift
    \/ MLSEndRep
    \/ MLSReturn

SpecMLS == InitMLS /\ [][NextMLS]_vars

\* the caller takes the returned array, or catches the error, and is free
\* to call again; the first period of the first array returned is kept to
\* compare later calls with
MaxCalls == 3

MLSAgain ==
    /\ mls.pc \in {"done", "threw"}
    /\ mlsKept.calls < MaxCalls
    /\ mlsKept' = IF mlsKept.order = 0 /\ mls.pc = "done" /\ Kept(mls.order)
                  THEN [order |-> mls.order,
                        first |-> SubSeq(mls.samples, 1, mls.seqLength),
                        calls |-> mlsKept.calls + 1]
                  ELSE [mlsKept EXCEPT !.calls = @ + 1]
    /\ mls' = MlsIdle
    /\ UNCHANGED <<wavVars, wk, call>>

\* calls that follow one another: a supported order and an unsupported one
NextMLSPair ==
    \/ \E order \in {9, 10}, repetitions \in 1..MaxReps, onProgress \in BOOLEAN :
           MLSCall(order, repetitions, onProgress)
    \/ MLSBeginRep
    \/ MLSShift
    \/ MLSEndRep
    \/ MLSReturn
    \/ MLSAgain

SpecMLSPair == InitMLS /\ [][NextMLSPair]_vars

----------------------------------------------------------------------------
(* js/utils.js: the transforms of the pipeline.                            *)
(* A sample of the pipeline is held as the value it started from and the   *)
(* factors it was multiplied by since, in the order of the                 *)
(* multiplications: [src, by].  A factor is <<kind, n, denom>>.  The       *)
(* products the code can form exactly are formed: a factor 1 leaves the    *)
(* sample as it is and a factor 0 makes it zero.                           *)

ZeroW == <<"zero", 0, 1>>
OneW == <<"one", 1, 1>>

\* a sample of a zero-filled Float64Array
Zero == [src |-> <<"zero", 0>>, by |-> <<>>]

\* the k-th value a generator computed, and the value v a generator stored
Gen(k) == [src |-> <<"gen", k>>, by |-> <<>>]
Exact(v) == IF v = 0 THEN Zero ELSE [src |-> <<"num", v>>, by |-> <<>>]

\* new Float64Array(n)
ZeroSamples(n) == [i \in 1..n |-> Zero]

\* samples[i] *= w
Mul(sample, w) ==
    IF sample = Zero \/ w = ZeroW THEN Zero
    ELSE IF w = OneW THEN sample
    ELSE [sample EXCEPT !.by = Append(@, w)]

\* dBFSToLinear(dBFS) = Math.pow(10, dBFS / 20); 10^0 is 1
dBFSToLinear(dBFS) == IF dBFS = 0 THEN OneW ELSE <<"gain", dBFS, 20>>

\* the window value kind(n / denom) of a fade that rises from 0 at n = 0 to
\* 1 at n = denom, or falls from 1 to 0
Rising(kind, n, denom) ==
    IF n = 0 THEN ZeroW ELSE IF n = denom THEN OneW ELSE <<kind, n, denom>>
Falling(kind, n, denom) ==
    IF n = 0 THEN OneW ELSE IF n = denom THEN ZeroW ELSE <<kind, n, denom>>

\* halfHanningFadeIn(length): w[n] = 0.5 * (1 - cos(pi * n / (length - 1)));
\* a window of one sample is [1]
halfHanningFadeIn(length) ==
    [n \in 1..length |->
        IF length <= 1 THEN OneW ELSE Rising("hanningIn", n - 1, length - 1)]

\* halfHanningFadeOut(length): w[n] = 0.5 * (1 + cos(pi * n / (length - 1)))
halfHanningFadeOut(length) ==
    [n \in 1..length |->
        IF length <= 1 THEN OneW ELSE Falling("hanningOut", n - 1, length - 1)]

\* linearFadeIn(length): w[n] = n / (length - 1)
linearFadeIn(length) ==
    [n \in 1..length |->
        IF length <= 1 THEN OneW ELSE Rising("linearIn", n - 1, length - 1)]

\* linearFadeOut(length): w[n] = 1 - n / (length - 1)
linearFadeOut(length) ==
    [n \in 1..length |->
        IF length <= 1 THEN OneW ELSE Falling("linearOut", n - 1, length - 1)]

\* the fade-in of applyFades with the window laid from the first sample of
\* the fade on, whatever the length of the array
FadeIn_Unclamped(samples, fadeInType, fadeInSamples) ==
    LET N == Len(samples)
        win == IF fadeInType = "hanning" THEN halfHanningFadeIn(fadeInSamples)
               ELSE linearFadeIn(fadeInSamples)
    IN  IF fadeInType # "none" /\ fadeInSamples > 0
        THEN [i \in 1..N |-> IF i <= fadeInSamples THEN Mul(samples[i], win[i])
                             ELSE samples[i]]
        ELSE samples

\* the first block of applyFades: the fade-in over the first
\* min(fadeInSamples, N) samples
FadeIn(samples, fadeInType, fadeInSamples) ==
    LET N == Len(samples)
        len == Min(fadeInSamples, N)
        win == IF fadeInType = "hanning" THEN halfHanningFadeIn(len)
               ELSE linearFadeIn(len)
    IN  IF fadeInType # "none" /\ fadeInSamples > 0
        THEN [i \in 1..N |-> IF i <= len THEN Mul(samples[i], win[i])
                             ELSE samples[i]]
        ELSE samples

\* the second block of applyFades: the fade-out over the last
\* min(fadeOutSamples, N) samples, from start = N - len on
FadeOut(samples, fadeOutType, fadeOutSamples) ==
    LET N == Len(samples)
        len == Min(fadeOutSamples, N)
        win == IF fadeOutType = "hanning" THEN halfHanningFadeOut(len)
               ELSE linearFadeOut(len)
        start == N - len
    IN  IF fadeOutType # "none" /\ fadeOutSamples > 0
        THEN [i \in 1..N |-> IF i > start THEN Mul(samples[i], win[i - start])
                             ELSE samples[i]]
        ELSE samples

\* applyFades(samples, fadeInType, fadeInSamples, fadeOutType,
\*            fadeOutSamples): the array after the call
applyFades(samples, fadeInType, fadeInSamples, fadeOutType, fadeOutSamples) ==
    FadeOut(FadeIn(samples, fadeInType, fadeInSamples),
            fadeOutType, fadeOutSamples)

\* applyGain(samples, linearGain): the array after the call
applyGain(samples, linearGain) ==
    [i \in 1..Len(samples) |-> Mul(samples[i], linearGain)]

\* addSilence(samples, leadSamples, trailSamples): out.set(samples,
\* leadSamples) on a zero-filled array of the total length
addSilence(samples, leadSamples, trailSamples) ==
    SetBytes(ZeroSamples(leadSamples + Len(samples) + trailSamples),
             leadSamples, samples)

\* the loop of repeatWithSilence from repetition r on: out.set(samples,
\* r * segLen)
RECURSIVE RepeatLoop(_, _, _, _, _)
RepeatLoop(out, samples, r, repetitions, segLen) ==
    IF r >= repetitions THEN out
    ELSE RepeatLoop(SetBytes(out, r * segLen, samples), samples, r + 1,
                    repetitions, segLen)

\* repeatWithSilence keeping the gap after the last copy as well
repeatWithSilence_TrailingGap(samples, repetitions, silenceSamples) ==
    IF repetitions <= 1 THEN samples
    ELSE RepeatLoop(ZeroSamples((Len(samples) + silenceSamples) * repetitions),
                    samples, 0, repetitions, Len(samples) + silenceSamples)

\* repeatWithSilence(samples, repetitions, silenceSamples)
repeatWithSilence(samples, repetitions, silenceSamples) ==
    IF repetitions <= 1 THEN samples
    ELSE LET segLen == Len(samples) + silenceSamples
             total == Len(samples) * repetitions
                      + silenceSamples * (repetitions - 1)
         IN  RepeatLoop(ZeroSamples(total), samples, 0, repetitions, segLen)

----------------------------------------------------------------------------
(* js/generators/stepped-sine.js (src/js/generators/sweep.js from line 114 *)
(* on).  Frequencies are positive integers of Hz and times are integers of *)
(* milliseconds; a frequency of the list is held exactly, as               *)
(* (m / d) * 2^(r / q).                                                    *)

\* 2^e * a <= b for an exponent of either sign
Pow2Leq(e, a, b) == IF e >= 0 THEN 2 ^ e * a <= b ELSE a <= 2 ^ (-e) * b

\* the search for Math.round(x), x = log2(b / a) / 2: the integer k with
\* 2^(2k-1) <= b / a < 2^(2k+1), upwards or downwards from 0
RECURSIVE RoundLog2Search(_, _, _, _)
RoundLog2Search(k, dir, a, b) == IF Pow2Leq(2 * k - 1, a, b) /\ ~Pow2Leq(2 * k + 1, a, b) THEN k ELSE RoundLog2Search(k + dir, dir, a, b)

\* Math.round(Math.log2(endFreq / startFreq) * stepsPerOctave)
RoundOctaveSteps(startFreq, endFreq, stepsPerOctave) ==
    LET a == startFreq ^ (2 * stepsPerOctave)
        b == endFreq ^ (2 * stepsPerOctave)
    IN  RoundLog2Search(0, IF Pow2Leq(-1, a, b) THEN 1 ELSE -1, a, b)

Hz(m, d, r, q) == [m |-> m, d |-> d, r |-> r, q |-> q]

\* startFreq * Math.pow(2, i / stepsPerOctave)
LogFrequency(startFreq, i, stepsPerOctave) ==
    Hz(startFreq * 2 ^ (i \div stepsPerOctave), 1, i % stepsPerOctave,
       stepsPerOctave)

\* freq <= endFreq * 1.001, for a frequency m * 2^(r / q)
WithinTolerance(freq, endFreq) ==
    (1000 * freq.m) ^ freq.q * 2 ^ freq.r <= (1001 * endFreq) ^ freq.q

\* computeSteppedFrequencies without the tolerance test: every step up to
\* the rounded count is taken
computeSteppedFrequencies_NoTolerance(startFreq0, endFreq, stepsPerOctave, spacing) ==
    LET startFreq == Max(1, startFreq0)
        rounded == RoundOctaveSteps(startFreq, endFreq, stepsPerOctave)
        totalSteps == Max(1, rounded)
    IN  IF spacing = "logarithmic"
        THEN [i \in 1..(rounded + 1) |->
                 LogFrequency(startFreq, i - 1, stepsPerOctave)]
        ELSE [i \in 1..(totalSteps + 1) |->
                 Hz(startFreq * totalSteps + (i - 1) * (endFreq - startFreq),
                    totalSteps, 0, 1)]

\* computeSteppedFrequencies(startFreq, endFreq, stepsPerOctave, spacing)
computeSteppedFrequencies(startFreq0, endFreq, stepsPerOctave, spacing) ==
    LET startFreq == Max(1, startFreq0)
        rounded == RoundOctaveSteps(startFreq, endFreq, stepsPerOctave)
        totalSteps == Max(1, rounded)
        Pushed(freq) == WithinTolerance(freq, endFreq)
    IN  IF spacing = "logarithmic"
        THEN SelectSeq([i \in 1..(rounded + 1) |->
                           LogFrequency(startFreq, i - 1, stepsPerOctave)],
                       Pushed)
        ELSE [i \in 1..(totalSteps + 1) |->
                 Hz(startFreq * totalSteps + (i - 1) * (endFreq - startFreq),
                    totalSteps, 0, 1)]

\* the sample envelope * Math.sin(phaseInc * i) of a dwell period, stored
\* at index k: sin(0) is 0 at i = 0, and the taper is 0 at the last sample
Tone(i, dwellSamples, taperSamples, k) ==
    IF i = 0 \/ (taperSamples > 0 /\ i = dwellSamples - 1) THEN Zero
    ELSE Gen(k)

\* the loop of generateSteppedSine over the steps, from `step` on; g holds
\* samples, writeIndex and the progress reports
RECURSIVE SteppedLoop(_, _, _, _, _, _)
SteppedLoop(g, step, count, dwellSamples, gapSamples, taperSamples) ==
    IF step >= count THEN g
    ELSE SteppedLoop(
             [samples |->
                  [k \in 1..Len(g.samples) |->
                      IF k > g.writeIndex /\ k <= g.writeIndex + dwellSamples
                      THEN Tone(k - g.writeIndex - 1, dwellSamples,
                                taperSamples, k)
                      ELSE g.samples[k]],
              writeIndex |-> g.writeIndex + dwellSamples + gapSamples,
              reports |-> Append(g.reports, <<step, count>>)],
             step + 1, count, dwellSamples, gapSamples, taperSamples)

\* generateSteppedSine({startFreq, endFreq, sampleRate, stepsPerOctave,
\*                      dwellTime, gapTime, spacing, onProgress})
generateSteppedSine(p) ==
    LET frequencies == computeSteppedFrequencies(p.startFreq, p.endFreq,
                                                 p.stepsPerOctave, p.spacing)
        dwellSamples == MathRound(p.dwellMs * p.sampleRate, 1000)
        gapSamples == MathRound(p.gapMs * p.sampleRate, 1000)
        taperSamples == Min(MathRound(p.sampleRate, 1000), dwellSamples \div 4)
        totalSamples == Len(frequencies) * (dwellSamples + gapSamples)
        g == SteppedLoop([samples |-> ZeroSamples(totalSamples),
                          writeIndex |-> 0, reports |-> <<>>],
                         0, Len(frequencies), dwellSamples, gapSamples,
                         taperSamples)
    IN  [samples |-> SubSeq(g.samples, 1, g.writeIndex),
         reports |-> Append(g.reports, <<1, 1>>)]

\* steppedSineDuration of lines 205-217, in milliseconds: the step count is
\* computed anew from the rounded number of octave steps
steppedSineDuration(p) ==
    LET startFreq == Max(1, p.startFreq)
        rounded == RoundOctaveSteps(startFreq, p.endFreq, p.stepsPerOctave)
        numSteps == IF p.spacing = "logarithmic" THEN rounded + 1
                    ELSE Max(1, rounded) + 1
    IN  numSteps * (p.dwellMs + p.gapMs)

\* steppedSineDuration of lines 323-326, in milliseconds: the step count is
\* the length of the frequency list
steppedSineDurationOfList(p) ==
    Len(computeSteppedFrequencies(p.startFreq, p.endFreq, p.stepsPerOctave,
                                  p.spacing))
    * (p.dwellMs + p.gapMs)

\* the gain of a step of applyAWeightStepped: 1 at the reference frequency
\* of 1 kHz
StepGain(freq, step) ==
    IF freq = Hz(1000, 1, 0, 1) THEN OneW ELSE <<"aweight", step, 1>>

\* pass 1 of applyAWeightStepped from `step` on: samples[i] *= gain for i
\* from offset = step * stepLen up to min(offset + dwellSamples, length);
\* a holds the samples and the [offset, end) of every step
RECURSIVE AWeightLoop(_, _, _, _, _)
AWeightLoop(a, step, frequencies, dwellSamples, stepLen) ==
    IF step >= Len(frequencies) THEN a
    ELSE LET offset == step * stepLen
             end == Min(offset + dwellSamples, Len(a.samples))
         IN  AWeightLoop(
                 [samples |->
                      [k \in 1..Len(a.samples) |->
                          IF k - 1 >= offset /\ k - 1 < end
                          THEN Mul(a.samples[k],
                                   StepGain(frequencies[step + 1], step))
                          ELSE a.samples[k]],
                  placed |-> Append(a.placed, <<offset, end>>)],
                 step + 1, frequencies, dwellSamples, stepLen)

\* applyAWeightStepped(samples, params); peakAbove tells whether pass 2
\* finds a peak above 1.0 and scales the array down
applyAWeightStepped(samples, p, peakAbove) ==
    LET frequencies == computeSteppedFrequencies(p.startFreq, p.endFreq,
                                                 p.stepsPerOctave, p.spacing)
        dwellSamples == MathRound(p.dwellMs * p.sampleRate, 1000)
        gapSamples == MathRound(p.gapMs * p.sampleRate, 1000)
        a == AWeightLoop([samples |-> samples, placed |-> <<>>], 0,
                         frequencies, dwellSamples, dwellSamples + gapSamples)
    IN  [samples |-> IF peakAbove
                     THEN [k \in 1..Len(samples) |->
                              Mul(a.samples[k], <<"normalize", 1, 1>>)]
                     ELSE a.samples,
         placed |-> a.placed]

----------------------------------------------------------------------------
(* The stepped-sine functions as the page uses them on one set of          *)
(* parameters: the frequency list for the plot, the duration estimate,     *)
(* the generation and the per-step equalization.                           *)

MaxDwell == 4

SteppedFreqs ==
    {<<100, 1000>>, <<100, 300>>, <<0, 3>>, <<3, 24>>, <<5, 4>>,
     <<1000, 1000>>, <<20, 30>>, <<250, 1000>>, <<7, 1>>}

\* the exact comparisons of the list need (1001 * endFreq)^stepsPerOctave
\* within 32 bits
SteppedParams ==
    {p \in [startFreq : {f[1] : f \in SteppedFreqs},
            endFreq : {f[2] : f \in SteppedFreqs},
            stepsPerOctave : {1, 2},
            spacing : {"logarithmic", "linear"},
            dwellMs : {1, MaxDwell}, gapMs : {0, 1},
            sampleRate : {500, 1000}] :
        /\ <<p.startFreq, p.endFreq>> \in SteppedFreqs
        /\ p.stepsPerOctave = 1 \/ (p.startFreq <= 32 /\ p.endFreq <= 32)}

InitStepped ==
    /\ wavReq = IdleRequest
    /\ wavCalls = <<>>
    /\ mls = MlsIdle
    /\ mlsKept = NoneKept
    /\ wk = WkIdle
    /\ call \in {[fn |-> "stepped", pc |-> "start", p |-> p, frequencies |-> <<>>, estimateMs |-> 0, generated |-> <<>>, reports |-> <<>>, weighted |-> <<>>, placed |-> <<>>] : p \in SteppedParams}

\* plotParams.steppedFrequencies = computeSteppedFrequencies(...)
SteppedPlot ==
    /\ call.fn = "stepped" /\ call.pc = "start"
    /\ call' = [call EXCEPT !.pc = "plotted", !.frequencies = computeSteppedFrequencies(call.p.startFreq, call.p.endFreq, call.p.stepsPerOctave, call.p.spacing)]
    /\ UNCHANGED <<wavVars, mls, mlsKept, wk>>

\* params.duration = steppedSineDuration({...}); the module declares the
\* function twice, and either declaration may be the one that is bound
SteppedEstimate ==
    /\ call.fn = "stepped" /\ call.pc = "plotted"
    /\ \E d \in {steppedSineDuration(call.p), steppedSineDurationOfList(call.p)} :
          call' = [call EXCEPT !.pc = "estimated", !.estimateMs = d]
    /\ UNCHANGED <<wavVars, mls, mlsKept, wk>>

\* samples = generateSteppedSine(params)
SteppedGenerate ==
    /\ call.fn = "stepped" /\ call.pc = "estimated"
    /\ LET g == generateSteppedSine(call.p)
       IN  call' = [call EXCEPT !.pc = "generated", !.generated = g.samples, !.reports = g.reports]
    /\ UNCHANGED <<wavVars, mls, mlsKept, wk>>

\* applyAWeighting(samples, params) with signalType 'stepped'
SteppedEqualize(peakAbove) ==
    /\ call.fn = "stepped" /\ call.pc = "generated"
    /\ LET a == applyAWeightStepped(call.generated, call.p, peakAbove)
       IN  call' = [call EXCEPT !.pc = "equalized", !.weighted = a.samples, !.placed = a.placed]
    /\ UNCHANGED <<wavVars, mls, mlsKept, wk>>

NextStepped ==
    \/ SteppedPlot
    \/ SteppedEstimate
    \/ SteppedGenerate
    \/ \E peakAbove \in BOOLEAN : SteppedEqualize(peakAbove)

SpecStepped == InitStepped /\ [][NextStepped]_vars

\* m1 * 2^(r1/q) < m2 * 2^(r2/q), for two frequencies of one list
HzLess(f, g) == f.m ^ f.q * 2 ^ f.r < g.m ^ g.q * 2 ^ g.r

\* C13: in logarithmic mode the frequency list is the geometric list
\* max(1, startFreq) * 2^(i / stepsPerOctave), i = 0, 1, ..., it is strictly
\* increasing, no value exceeds endFreq * 1.001, and 100 Hz to 1000 Hz at one
\* step per octave gives exactly 100, 200, 400, 800.
C13_LogFrequencies ==
    (call.fn = "stepped" /\ call.pc # "start" /\ call.p.spacing = "logarithmic") =>
        LET fs == call.frequencies
            p == call.p
        IN  /\ \A j \in 1..Len(fs) :
                  /\ fs[j] = LogFrequency(Max(1, p.startFreq), j - 1, p.stepsPerOctave)
                  /\ WithinTolerance(fs[j], p.endFreq)
            /\ \A j \in 1..(Len(fs) - 1) : HzLess(fs[j], fs[j + 1])
            /\ (p.startFreq = 100 /\ p.endFreq = 1000 /\ p.stepsPerOctave = 1) =>
                  fs = <<Hz(100, 1, 0, 1), Hz(200, 1, 0, 1), Hz(400, 1, 0, 1), Hz(800, 1, 0, 1)>>

C13_Witness ==
    /\ call.fn = "stepped" /\ call.pc = "plotted"
    /\ call.p.spacing = "logarithmic"
    /\ call.p.startFreq = 100 /\ call.p.endFreq = 300 /\ call.p.stepsPerOctave = 1
    /\ Len(call.frequencies) = 2

\* C14: the duration estimate, the generation and the per-step equalization
\* use one step count: the estimate is (number of steps emitted) times
\* (dwell + gap), the generated array has that number times (dwell samples
\* + gap samples) samples, and the equalization places step s at offset
\* s * (dwell samples + gap samples).
C14_SameStepCount ==
    (call.fn = "stepped" /\ call.pc = "equalized") =>
        LET p == call.p
            steps == Len(call.reports) - 1
            stepLen == MathRound(p.dwellMs * p.sampleRate, 1000) + MathRound(p.gapMs * p.sampleRate, 1000)
        IN  /\ call.estimateMs = steps * (p.dwellMs + p.gapMs)
            /\ Len(call.generated) = steps * stepLen
            /\ Len(call.placed) = steps
            /\ \A s \in 0..(steps - 1) : call.placed[s + 1][1] = s * stepLen

----------------------------------------------------------------------------
(* js/worker.js: the strings of the metadata block.  A string is the       *)
(* sequence of its character codes; times are integers of milliseconds.    *)

\* the string literals of the worker and of buildBwfDescription, as character
\* codes
Chars ==
    [ess |-> <<69, 83, 83>>,
     linear |-> <<76, 105, 110, 101, 97, 114, 83, 119, 101, 101, 112>>,
     white |-> <<87, 104, 105, 116, 101, 78, 111, 105, 115, 101>>,
     pink |-> <<80, 105, 110, 107, 78, 111, 105, 115, 101>>,
     mls |-> <<77, 76, 83>>,
     stepped |-> <<83, 116, 101, 112, 112, 101, 100, 83, 105, 110, 101>>,
     square |-> <<115, 113, 117, 97, 114, 101>>,
     hz |-> <<32, 72, 122>>,
     s |-> <<115>>,
     bit |-> <<45, 98, 105, 116, 32>>,
     float |-> <<102, 108, 111, 97, 116>>,
     PCM |-> <<80, 67, 77>>,
     FLOAT |-> <<70, 76, 79, 65, 84>>,
     dBFS |-> <<32, 100, 66, 70, 83>>,
     fadeIn |-> <<102, 97, 100, 101, 45, 105, 110, 58>>,
     hanning |-> <<104, 97, 110, 110, 105, 110, 103>>,
     linearFade |-> <<108, 105, 110, 101, 97, 114>>,
     slash |-> <<47>>,
     oct |-> <<49, 111, 99, 116>>,
     reps |-> <<120, 32, 114, 101, 112, 115>>,
     mono |-> <<109, 111, 110, 111>>,
     stereo |-> <<115, 116, 101, 114, 101, 111>>,
     generatedBy |-> <<71, 101, 110, 101, 114, 97, 116, 101, 100, 32, 98,
         121, 32, 83, 105, 110, 101, 83, 119, 101, 101, 112, 71, 101, 110,
         101, 114, 97, 116, 111, 114>>,
     comma |-> <<44, 32>>,
     dash |-> <<45>>,
     inverseFor |-> <<73, 110, 118, 101, 114, 115, 101, 32, 102, 105, 108,
         116, 101, 114, 32, 102, 111, 114, 32>>,
     originator |-> <<83, 105, 110, 101, 83, 119, 101, 101, 112, 71, 101,
         110, 101, 114, 97, 116, 111, 114, 32, 118, 49, 46, 48>>,
     A |-> <<65, 61>>,
     F |-> <<44, 70, 61>>,
     W |-> <<44, 87, 61>>,
     M |-> <<44, 77, 61>>,
     T |-> <<44, 84, 61, 83, 105, 110, 101, 83, 119, 101, 101, 112, 71, 101,
         110, 101, 114, 97, 116, 111, 114, 13, 10>>]

\* String(n) of a non-negative integer, and of any integer
RECURSIVE Decimal(_)
Decimal(n) == IF n < 10 THEN <<48 + n>> ELSE Decimal(n \div 10) \o <<48 + (n % 10)>>
NumberStr(n) == IF n < 0 THEN Chars.dash \o Decimal(-n) ELSE Decimal(n)

\* String(ms / 1000) of a number of seconds: the shortest decimal
SecondsStr(ms) ==
    LET frac == ms % 1000
        digits == <<48 + (frac \div 100), 48 + ((frac \div 10) % 10), 48 + (frac % 10)>>
    IN  Decimal(ms \div 1000)
        \o (IF frac = 0 THEN <<>>
            ELSE <<46>> \o SubSeq(digits, 1, IF frac % 10 # 0 THEN 3
                                            ELSE IF frac % 100 # 0 THEN 2 ELSE 1))

\* n.toString(36)
RECURSIVE Base36(_)
Base36(n) ==
    LET d == n % 36
        c == IF d < 10 THEN 48 + d ELSE 87 + d
    IN  IF n < 36 THEN <<c>> ELSE Base36(n \div 36) \o <<c>>

\* parts.join(', ')
RECURSIVE Join(_)
Join(parts) ==
    IF Len(parts) = 0 THEN <<>>
    ELSE IF Len(parts) = 1 THEN parts[1]
    ELSE parts[1] \o Chars.comma \o Join(Tail(parts))

\* SIGNAL_NAMES[params.signalType] || params.signalType
SignalName(signalType) == Chars[signalType]

\* buildBwfDescription(params)
buildBwfDescription(params) ==
    Join(<<SignalName(params.signalType),
           NumberStr(params.startFreq) \o Chars.dash \o NumberStr(params.endFreq) \o Chars.hz,
           SecondsStr(params.durationMs) \o Chars.s,
           Decimal(params.sampleRate) \o Chars.hz,
           Decimal(params.bitDepth) \o Chars.bit
               \o (IF params.format = "float" THEN Chars.float ELSE Chars.PCM)>>
         \o (IF params.hasOutputLevel
             THEN <<NumberStr(params.outputLevel) \o Chars.dBFS>> ELSE <<>>)
         \o (IF params.fadeInType # "" /\ params.fadeInType # "none"
             THEN <<Chars.fadeIn
                    \o (IF params.fadeInType = "hanning" THEN Chars.hanning
                        ELSE Chars.linearFade)
                    \o Chars.slash
                    \o (IF params.fadeIn1Octave THEN Chars.oct
                        ELSE SecondsStr(params.fadeInMs) \o Chars.s)>>
             ELSE <<>>)
         \o (IF params.repetitions > 1
             THEN <<Decimal(params.repetitions) \o Chars.reps>> ELSE <<>>)
         \o <<IF params.channelMode = "mono" THEN Chars.mono ELSE Chars.stereo,
              Chars.generatedBy>>)

\* the bwfMetadata object of the worker, built at clock reading t
BwfMetadata(params, numChannels, t) ==
    [description |-> buildBwfDescription(params),
     originator |-> Chars.originator,
     originatorReference |-> Base36((t.day * 86400 + t.sec) * 1000),
     codingHistory |->
         Chars.A \o (IF params.format = "float" THEN Chars.FLOAT ELSE Chars.PCM)
         \o Chars.F \o Decimal(params.sampleRate)
         \o Chars.W \o Decimal(params.bitDepth)
         \o Chars.M \o (IF numChannels = 1 THEN Chars.mono ELSE Chars.stereo)
         \o Chars.T]

----------------------------------------------------------------------------
(* js/worker.js: self.onmessage and the channel builders.  The handler is  *)
(* followed from one call it makes to the next; wk holds its locals, the   *)
(* messages it has posted and the pipeline functions it has called.        *)

\* x || dflt on a number
OrElse(x, dflt) == IF x = 0 THEN dflt ELSE x

\* Math.round(ms / 1000 * sampleRate), the sample count of a time in ms
MsToSamples(ms, sampleRate) == MathRound(ms * sampleRate, 1000)

\* the array and the reports of generateExponentialSweep, generateLinearSweep,
\* generateWhiteNoise and generatePinkNoise: N = Math.round(sampleRate *
\* duration) samples, the first of a sweep being sin(0); a report at every
\* i with (i & 0xFFFF) = 0, which for the lengths followed here is i = 0
Generated(signalType, params) ==
    LET N == MsToSamples(params.durationMs, params.sampleRate)
    IN  [samples |-> [k \in 1..N |->
                         IF k = 1 /\ signalType \in {"ess", "linear"} THEN Zero
                         ELSE Gen(k)],
         reports |-> (IF N > 0 THEN <<<<0, N>>>> ELSE <<>>) \o <<<<1, 1>>>>]

\* generateInverseFilter(sweepSamples, params): the reversed sweep times the
\* envelope exp(-tOriginal / T * lnRatio), which is 1 at tOriginal = 0,
\* times the normalization factor
generateInverseFilter(sweepSamples) ==
    LET N == Len(sweepSamples)
    IN  [i \in 1..N |->
            Mul(Mul(sweepSamples[N + 1 - i],
                    IF i = N THEN OneW ELSE <<"envelope", N - i, 1>>),
                <<"normFactor", 1, 1>>)]

\* essOneOctaveFadeSamples(startFreq, endFreq, duration, sampleRate) for
\* endFreq = startFreq * 2^k: Math.round(duration / k * sampleRate)
essOneOctaveFadeSamples(startFreq, endFreq, durationMs, sampleRate) ==
    LET k == CHOOSE k \in 1..16 : endFreq = startFreq * 2 ^ k
    IN  MathRound(durationMs * sampleRate, 1000 * k)

\* sweepLen taken as an equal share of the whole region between lead and
\* trail, the gaps included
SweepLen_WithGaps(totalLen, reps, leadSamples, trailSamples, interSilenceSamples) ==
    MathRound(totalLen - leadSamples - trailSamples, reps)

\* sweepLen of the channel builders: Math.round((sweepRegion -
\* interSilenceSamples * (reps - 1)) / reps)
SweepLen(totalLen, reps, leadSamples, trailSamples, interSilenceSamples) ==
    MathRound(totalLen - leadSamples - trailSamples
              - interSilenceSamples * (reps - 1), reps)

\* whether the loop of a channel builder copies index i (from 0) in
\* repetition r: start <= i < end
InRepetition(i, r, totalLen, reps, leadSamples, trailSamples, interSilenceSamples) ==
    LET sweepLen == SweepLen(totalLen, reps, leadSamples, trailSamples,
                             interSilenceSamples)
        start == leadSamples + r * (sweepLen + interSilenceSamples)
        end == Min(start + sweepLen, totalLen)
    IN  start <= i /\ i < end

\* buildAlternateChannels(samples, reps, leadSamples, trailSamples, params)
buildAlternateChannels(samples, reps, leadSamples, trailSamples, params) ==
    LET totalLen == Len(samples)
        inter == MsToSamples(params.interSweepSilence, params.sampleRate)
        Target(parity) ==
            [k \in 1..totalLen |->
                IF \E r \in 0..(reps - 1) :
                       /\ r % 2 = parity
                       /\ InRepetition(k - 1, r, totalLen, reps, leadSamples,
                                       trailSamples, inter)
                THEN samples[k] ELSE Zero]
    IN  IF reps <= 1 THEN <<samples, ZeroSamples(totalLen)>>
        ELSE <<Target(0), Target(1)>>

\* buildLRBChannels(samples, reps, leadSamples, trailSamples, params)
buildLRBChannels(samples, reps, leadSamples, trailSamples, params) ==
    LET totalLen == Len(samples)
        inter == MsToSamples(params.interSweepSilence, params.sampleRate)
        Target(phases) ==
            [k \in 1..totalLen |->
                IF \E r \in 0..(reps - 1) :
                       /\ r % 3 \in phases
                       /\ InRepetition(k - 1, r, totalLen, reps, leadSamples,
                                       trailSamples, inter)
                THEN samples[k] ELSE Zero]
    IN  IF reps <= 1 THEN <<samples, samples>>
        ELSE <<Target({0, 2}), Target({1, 2})>>

\* syncChannel = new Float64Array(samples.length);
\* syncChannel[leadSamples] = linearGain: a write at an index that is not
\* below the length leaves the array as it is
SyncChannel(totalLen, leadSamples, linearGain) ==
    [k \in 1..totalLen |->
        IF k - 1 = leadSamples
        THEN Mul(Exact(1), linearGain) ELSE Zero]

\* the messages of the worker; a progress fraction is <<numerator,
\* denominator>>
Message(type, fraction, totalSamples, fileSizeBytes, inverseBytes) ==
    [type |-> type, fraction |-> fraction, totalSamples |-> totalSamples,
     fileSizeBytes |-> fileSizeBytes, inverseBytes |-> inverseBytes]
Progress(num, den) == Message("progress", <<num, den>>, 0, 0, 0)

\* genProgress: f * 0.4, and encodeProgress: 0.60 + f * 0.30, for every
\* report f of a callee
GenProgress(reports) ==
    [j \in 1..Len(reports) |-> Progress(4 * reports[j][1], 10 * reports[j][2])]
\* encodeProgress without the offset of the phase: f * 0.30
EncodeProgress_Unshifted(reports) ==
    [j \in 1..Len(reports) |-> Progress(30 * reports[j][1], 100 * reports[j][2])]
EncodeProgress(reports) ==
    [j \in 1..Len(reports) |->
        Progress(60 * reports[j][2] + 30 * reports[j][1], 100 * reports[j][2])]

\* the parameter object the worker hands to encodeWAV
EncoderParams(params, numChannels, channelMode, channels, meta) ==
    [sampleRate |-> params.sampleRate, bitDepth |-> params.bitDepth,
     format |-> IF params.format # "" THEN params.format
                ELSE IF params.bitDepth = 32 THEN "float" ELSE "pcm",
     numChannels |-> numChannels, channelMode |-> channelMode,
     hasChannels |-> channels # <<>>, channels |-> channels,
     hasSync |-> FALSE, syncChannel |-> <<>>,
     hasMeta |-> TRUE, bwfMetadata |-> meta]

\* the arrays of a call of encodeWAV with every sample at 0: the values of
\* the samples bear neither on the size of the file nor on the reports,
\* which is what the worker passes on
Silent(arrays) == [c \in 1..Len(arrays) |-> ZeroBuffer(Len(arrays[c]))]

----------------------------------------------------------------------------
(* self.onmessage, one action for every stretch of the handler between two *)
(* calls into the pipeline.                                                *)

Post(w, pc, step, messages) ==
    [w EXCEPT !.pc = pc, !.steps = @ \o step, !.posted = @ \o messages]

\* if (type !== 'generate') return
WorkerIgnore ==
    /\ wk.pc = "received" /\ wk.type # "generate"
    /\ wk' = [wk EXCEPT !.pc = "done"]
    /\ UNCHANGED <<wavVars, mls, mlsKept, call>>

\* whether phase 1 throws: the switch does not know the signal type, or
\* new Float64Array(N) is asked for a negative length ('Invalid typed
\* array length')
GeneratorThrows(p) ==
    \/ p.signalType \notin {"ess", "linear", "white", "pink", "mls", "stepped"}
    \/ /\ p.signalType \in {"ess", "linear", "white", "pink"}
       /\ (~p.durationFinite \/ MsToSamples(p.durationMs, p.sampleRate) < 0)

\* phase 1 for every signal type but 'mls': the generator runs and reports
\* through genProgress, then postProgress(0.4); an unknown type throws and
\* the catch block posts 'error'
WorkerGenerate ==
    /\ wk.pc = "received" /\ wk.type = "generate"
    /\ wk.params.signalType # "mls"
    /\ LET p == wk.params
           g == IF p.signalType = "stepped"
                THEN generateSteppedSine(
                         [startFreq |-> p.startFreq, endFreq |-> p.endFreq,
                          sampleRate |-> p.sampleRate,
                          stepsPerOctave |-> OrElse(p.stepsPerOctave, 3),
                          dwellMs |-> OrElse(p.dwellMs, 500),
                          gapMs |-> OrElse(p.gapMs, 50),
                          spacing |-> IF p.steppedSpacing = "" THEN "logarithmic"
                                      ELSE p.steppedSpacing])
                ELSE Generated(p.signalType, p)
       IN  IF ~GeneratorThrows(p)
           THEN wk' = [Post(wk, "generated", <<>>,
                            GenProgress(g.reports) \o <<Progress(4, 10)>>)
                       EXCEPT !.samples = g.samples]
           ELSE wk' = Post(wk, "done", <<>>, <<Message("error", <<0, 1>>, 0, 0, 0)>>)
    /\ UNCHANGED <<wavVars, mls, mlsKept, call>>

\* phase 1 for 'mls': generateMLS({order: params.mlsOrder || 16,
\* repetitions: 1, onProgress: genProgress}) is entered
WorkerCallMLS ==
    /\ wk.pc = "received" /\ wk.type = "generate"
    /\ wk.params.signalType = "mls"
    /\ mls.pc = "idle"
    /\ mls' = MLSEntered(OrElse(wk.params.mlsOrder, 16), 1, TRUE)
    /\ wk' = [wk EXCEPT !.pc = "generating"]
    /\ UNCHANGED <<wavVars, mlsKept, call>>

\* the handler without its catch block: when generateMLS throws nothing is
\* posted
WorkerMLSReturned_Uncaught ==
    /\ wk.pc = "generating" /\ mls.pc \in {"done", "threw"}
    /\ IF mls.pc = "done"
       THEN wk' = [Post(wk, "generated", <<>>,
                        GenProgress(mls.progress) \o <<Progress(4, 10)>>)
                   EXCEPT !.samples = [k \in 1..Len(mls.samples) |->
                                          Exact(mls.samples[k])]]
       ELSE wk' = Post(wk, "done", <<>>, <<>>)
    /\ UNCHANGED <<wavVars, mls, mlsKept, call>>

\* generateMLS has returned or thrown: the array is taken and
\* postProgress(0.4) follows, or the catch block posts 'error'
WorkerMLSReturned ==
    /\ wk.pc = "generating" /\ mls.pc \in {"done", "threw"}
    /\ IF mls.pc = "done"
       THEN wk' = [Post(wk, "generated", <<>>,
                        GenProgress(mls.progress) \o <<Progress(4, 10)>>)
                   EXCEPT !.samples = [k \in 1..Len(mls.samples) |->
                                          Exact(mls.samples[k])]]
       ELSE wk' = Post(wk, "done", <<>>, <<Message("error", <<0, 1>>, 0, 0, 0)>>)
    /\ UNCHANGED <<wavVars, mls, mlsKept, call>>

\* phase 3 run ahead of phase 2: the gain is applied first and the fades
\* after it
WorkerFades_AfterGain ==
    /\ wk.pc = "generated"
    /\ LET p == wk.params
           linearGain == dBFSToLinear(IF p.hasOutputLevel THEN p.outputLevel
                                      ELSE -3)
           samples == applyFades(applyGain(wk.samples, linearGain),
                                 IF p.fadeInType = "" THEN "none" ELSE p.fadeInType,
                                 MsToSamples(p.fadeInMs, p.sampleRate),
                                 IF p.fadeOutType = "" THEN "none" ELSE p.fadeOutType,
                                 MsToSamples(p.fadeOutMs, p.sampleRate))
       IN  wk' = [Post(wk, "gained", <<"applyGain", "applyFades">>,
                       <<Progress(45, 100)>>)
                  EXCEPT !.linearGain = linearGain, !.samples = samples,
                         !.signal = samples]
    /\ UNCHANGED <<wavVars, mls, mlsKept, call>>

\* phase 2: the fade lengths, applyFades, postProgress(0.45);
\* parseFloat('1octave') is 1 for a signal that is not an ESS
WorkerFades ==
    /\ wk.pc = "generated"
    /\ LET p == wk.params
           fadeInSamples ==
               IF p.fadeIn1Octave /\ p.signalType = "ess"
               THEN essOneOctaveFadeSamples(p.startFreq, p.endFreq,
                                            p.durationMs, p.sampleRate)
               ELSE IF p.fadeIn1Octave THEN MsToSamples(1000, p.sampleRate)
               ELSE MsToSamples(p.fadeInMs, p.sampleRate)
           fadeOutSamples == MsToSamples(p.fadeOutMs, p.sampleRate)
       IN  wk' = [Post(wk, "faded", <<"applyFades">>, <<Progress(45, 100)>>)
                  EXCEPT !.samples =
                      applyFades(wk.samples,
                                 IF p.fadeInType = "" THEN "none" ELSE p.fadeInType,
                                 fadeInSamples,
                                 IF p.fadeOutType = "" THEN "none" ELSE p.fadeOutType,
                                 fadeOutSamples)]
    /\ UNCHANGED <<wavVars, mls, mlsKept, call>>

\* phase 3: linearGain = dBFSToLinear(outputLevel != null ? outputLevel : -3)
\* and applyGain; the array is the processed single signal
WorkerGain ==
    /\ wk.pc = "faded"
    /\ LET linearGain == dBFSToLinear(IF wk.params.hasOutputLevel
                                      THEN wk.params.outputLevel ELSE -3)
           samples == applyGain(wk.samples, linearGain)
       IN  wk' = [Post(wk, "gained", <<"applyGain">>, <<>>)
                  EXCEPT !.linearGain = linearGain, !.samples = samples,
                         !.signal = samples]
    /\ UNCHANGED <<wavVars, mls, mlsKept, call>>

\* phase 4: reps = params.repetitions || 1, repeatWithSilence if reps > 1,
\* postProgress(0.50)
WorkerRepeat ==
    /\ wk.pc = "gained"
    /\ LET reps == OrElse(wk.params.repetitions, 1)
           inter == MsToSamples(wk.params.interSweepSilence, wk.params.sampleRate)
       IN  wk' = [Post(wk, "repeated",
                       IF reps > 1 THEN <<"repeatWithSilence">> ELSE <<>>,
                       <<Progress(50, 100)>>)
                  EXCEPT !.reps = reps,
                         !.samples = IF reps > 1
                                     THEN repeatWithSilence(wk.samples, reps, inter)
                                     ELSE wk.samples]
    /\ UNCHANGED <<wavVars, mls, mlsKept, call>>

\* phase 5: addSilence, postProgress(0.55)
WorkerSilence ==
    /\ wk.pc = "repeated"
    /\ LET leadSamples == MsToSamples(wk.params.leadSilence, wk.params.sampleRate)
           trailSamples == MsToSamples(wk.params.trailSilence, wk.params.sampleRate)
       IN  wk' = [Post(wk, "padded", <<"addSilence">>, <<Progress(55, 100)>>)
                  EXCEPT !.leadSamples = leadSamples,
                         !.trailSamples = trailSamples,
                         !.samples = addSilence(wk.samples, leadSamples, trailSamples)]
    /\ UNCHANGED <<wavVars, mls, mlsKept, call>>

\* phase 6: the 'visualization' message and postProgress(0.60)
WorkerVisualize ==
    /\ wk.pc = "padded"
    /\ wk' = Post(wk, "visualized", <<>>,
                  <<Message("visualization", <<0, 1>>, Len(wk.samples), 0, 0),
                    Progress(60, 100)>>)
    /\ UNCHANGED <<wavVars, mls, mlsKept, call>>

\* phase 7, first half: the channel arrays of the modes that pre-build them
WorkerChannels ==
    /\ wk.pc = "visualized"
    /\ LET p == wk.params
           channelMode == IF p.channelMode = "" THEN "mono" ELSE p.channelMode
           channels ==
               IF channelMode = "stereo-sync"
               THEN <<wk.samples,
                      SyncChannel(Len(wk.samples), wk.leadSamples, wk.linearGain)>>
               ELSE IF channelMode = "stereo-alternate"
               THEN buildAlternateChannels(wk.samples, wk.reps, wk.leadSamples,
                                           wk.trailSamples, p)
               ELSE IF channelMode = "stereo-lrb"
               THEN buildLRBChannels(wk.samples, wk.reps, wk.leadSamples,
                                     wk.trailSamples, p)
               ELSE <<>>
       IN  wk' = [Post(wk, "laidout",
                       IF channels # <<>> THEN <<"channels">> ELSE <<>>, <<>>)
                  EXCEPT !.channelMode = channelMode,
                         !.numChannels = IF channelMode = "mono" THEN 1 ELSE 2,
                         !.channels = channels]
    /\ UNCHANGED <<wavVars, mls, mlsKept, call>>

\* phase 7, second half: the metadata, encodeWAV reporting through
\* encodeProgress, postProgress(0.90)
WorkerEncode(t) ==
    /\ wk.pc = "laidout"
    /\ \E meta \in {BwfMetadata(wk.params, wk.numChannels, t)} :
       \E ep \in {EncoderParams(wk.params, wk.numChannels, wk.channelMode, wk.channels, meta)} :
       \E wav \in {encodeWAV(ZeroBuffer(Len(wk.samples)), [ep EXCEPT !.channels = Silent(@)], TRUE, t)} :
           wk' = [Post(wk, "encoded", <<"encodeWAV">>,
                       EncodeProgress(wav.progress) \o <<Progress(90, 100)>>)
                  EXCEPT !.encoded = ChannelData(wk.samples, ep),
                         !.fileSizeBytes = Len(wav.buffer)]
    /\ UNCHANGED <<wavVars, mls, mlsKept, call>>

\* phase 8 and the end: the inverse filter of an ESS if asked for, encoded
\* in mono without a progress callback; postProgress(1.0); 'complete'
WorkerFinish(t) ==
    /\ wk.pc = "encoded"
    /\ \E inverse \in {wk.params.generateInverse /\ wk.params.signalType = "ess"} :
       \E inverseSamples \in {IF inverse THEN generateInverseFilter(Generated("ess", wk.params).samples) ELSE <<>>} :
       \E meta \in {[BwfMetadata(wk.params, wk.numChannels, t) EXCEPT !.description = Chars.inverseFor \o @]} :
       \E inverseBytes \in {IF inverse THEN Len(encodeWAV(ZeroBuffer(Len(inverseSamples)), EncoderParams(wk.params, 1, "mono", <<>>, meta), FALSE, t).buffer) ELSE 0} :
           wk' = [Post(wk, "done",
                       IF inverse THEN <<"encodeWAV">> ELSE <<>>,
                       <<Progress(1, 1),
                         Message("complete", <<1, 1>>, Len(wk.samples),
                                 wk.fileSizeBytes, inverseBytes)>>)
                  EXCEPT !.inverse = inverseSamples]
    /\ UNCHANGED <<wavVars, mls, mlsKept, call>>

----------------------------------------------------------------------------
(* generatePreviewSamples of the page, which runs the same pipeline on the *)
(* main thread up to the padding, with the equalization between the fades  *)
(* and the gain.                                                           *)

\* applyEQ(samples, params): every sample is replaced by a filtered one
applyEQ(samples) ==
    [k \in 1..Len(samples) |->
        IF samples[k] = Zero THEN Zero
        ELSE [samples[k] EXCEPT !.by = Append(@, <<"eq", k, 1>>)]]

\* the element of a set of one element; the value a stage of the pipeline
\* hands to the next is computed once
TheOne(S) == CHOOSE r \in S : TRUE

\* generatePreviewSamples: the switch on the signal type
PreviewGenerated(p) ==
    IF p.signalType = "stepped"
    THEN generateSteppedSine(
             [startFreq |-> p.startFreq, endFreq |-> p.endFreq,
              sampleRate |-> p.sampleRate,
              stepsPerOctave |-> p.stepsPerOctave,
              dwellMs |-> p.dwellMs, gapMs |-> p.gapMs,
              spacing |-> "undefined"]).samples
    ELSE Generated(p.signalType, p).samples

\* generatePreviewSamples: applyFades on what was generated
PreviewFaded(p) ==
    LET fadeInSamples ==
            IF p.fadeIn1Octave /\ p.signalType = "ess"
            THEN essOneOctaveFadeSamples(p.startFreq, p.endFreq,
                                         p.durationMs, p.sampleRate)
            ELSE IF p.fadeIn1Octave THEN MsToSamples(1000, p.sampleRate)
            ELSE MsToSamples(p.fadeInMs, p.sampleRate)
        fadeOutSamples == MsToSamples(p.fadeOutMs, p.sampleRate)
    IN  TheOne({applyFades(g, p.fadeInType, fadeInSamples, p.fadeOutType, fadeOutSamples) :
                    g \in {PreviewGenerated(p)}})

\* generatePreviewSamples: applyEQ if a curve is chosen, then applyGain
PreviewGained(p) ==
    TheOne({applyGain(IF p.eqCurve # "" /\ p.eqCurve # "none" THEN applyEQ(faded) ELSE faded,
                      dBFSToLinear(p.outputLevel)) :
                faded \in {PreviewFaded(p)}})

\* generatePreviewSamples: repeatWithSilence if reps > 1, then addSilence
PreviewPadded(p, gained) ==
    TheOne({addSilence(repeated, MsToSamples(p.leadSilence, p.sampleRate),
                       MsToSamples(p.trailSilence, p.sampleRate)) :
                repeated \in {IF OrElse(p.repetitions, 1) > 1
                              THEN repeatWithSilence(gained, OrElse(p.repetitions, 1),
                                                     MsToSamples(p.interSweepSilence, p.sampleRate))
                              ELSE gained}})

\* generatePreviewSamples(params, previewRate) for the sweeps, the noises
\* and the stepped sine; a signal type the switch does not know leaves
\* `samples` undefined and applyFades throws.  The request holds the
\* spacing of a stepped sine as steppedSpacing, so the `spacing` the
\* generator reads from it is undefined
PreviewOf(w) ==
    LET p == w.params
        eq == p.eqCurve # "" /\ p.eqCurve # "none"
        reps == OrElse(p.repetitions, 1)
    IN  IF GeneratorThrows(p) THEN [w EXCEPT !.pc = "threw"]
        ELSE TheOne({[Post(w, "previewed",
                           <<"applyFades">>
                           \o (IF eq THEN <<"applyEQ">> ELSE <<>>)
                           \o <<"applyGain">>
                           \o (IF reps > 1 THEN <<"repeatWithSilence">> ELSE <<>>)
                           \o <<"addSilence">>, <<>>)
                      EXCEPT !.linearGain = dBFSToLinear(p.outputLevel),
                             !.signal = gained, !.reps = reps,
                             !.leadSamples = MsToSamples(p.leadSilence, p.sampleRate),
                             !.trailSamples = MsToSamples(p.trailSilence, p.sampleRate),
                             !.samples = PreviewPadded(p, gained)] :
                     gained \in {PreviewGained(p)}})

\* a call of generatePreviewSamples
GeneratePreview ==
    /\ wk.pc = "received" /\ wk.type = "preview"
    /\ wk' = PreviewOf(wk)
    /\ UNCHANGED <<wavVars, mls, mlsKept, call>>

----------------------------------------------------------------------------
(* The messages the page sends to the worker.  The sample rate is 1000 Hz, *)
(* so that a millisecond is a sample.                                      *)

MaxWorkerReps == 3

BaseParams ==
    [signalType |-> "white", startFreq |-> 100, endFreq |-> 400,
     durationMs |-> 4, sampleRate |-> 1000, mlsOrder |-> 10,
     stepsPerOctave |-> 1, dwellMs |-> 2, gapMs |-> 1,
     steppedSpacing |-> "logarithmic",
     fadeInType |-> "none", fadeIn1Octave |-> FALSE, fadeInMs |-> 0,
     fadeOutType |-> "none", fadeOutMs |-> 0,
     hasOutputLevel |-> TRUE, outputLevel |-> -3,
     repetitions |-> 1, interSweepSilence |-> 0, leadSilence |-> 0,
     trailSilence |-> 0, channelMode |-> "mono", bitDepth |-> 16,
     format |-> "pcm", generateInverse |-> FALSE, eqCurve |-> "",
     durationFinite |-> TRUE]

ChannelModes ==
    {"mono", "stereo-identical", "stereo-sync", "stereo-alternate", "stereo-lrb"}

\* requests that differ in what is repeated, padded and laid out
LayoutParams ==
    {[BaseParams EXCEPT !.signalType = "ess", !.durationMs = d,
                        !.hasOutputLevel = lv, !.outputLevel = 0,
                        !.repetitions = reps, !.interSweepSilence = inter,
                        !.leadSilence = lead, !.trailSilence = trail,
                        !.channelMode = mode] :
        d \in {0, 2}, lv \in BOOLEAN, reps \in 0..MaxWorkerReps,
        inter \in {0, 1}, lead \in {0, 1}, trail \in {0, 2},
        mode \in ChannelModes}

\* requests that differ in the signal, the fades, the sample format and
\* the inverse filter
KindParams ==
    {[BaseParams EXCEPT !.signalType = st,
                        !.fadeInType = fade[1], !.fadeIn1Octave = fade[2],
                        !.fadeInMs = fade[3], !.fadeOutType = fade[4],
                        !.fadeOutMs = fade[5],
                        !.bitDepth = fm[1], !.format = fm[2],
                        !.generateInverse = gi] :
        st \in {"ess", "linear", "white", "pink", "stepped", "square"},
        fade \in {<<"", FALSE, 0, "", 0>>,
                  <<"hanning", FALSE, 3, "linear", 9>>,
                  <<"linear", TRUE, 0, "hanning", 2>>},
        fm \in {<<16, "pcm">>, <<32, "">>},
        gi \in BOOLEAN}

\* MLS requests: an order below the table, the lowest of the table, and
\* one above it
MlsParams ==
    {[BaseParams EXCEPT !.signalType = "mls", !.mlsOrder = order,
                        !.fadeInType = "hanning", !.fadeInMs = 2] :
        order \in {9, 10, 19}}

\* the requests of the preview: equalized or not, repeated or not
PreviewParams ==
    {[BaseParams EXCEPT !.signalType = st, !.eqCurve = eq,
                        !.fadeInType = "hanning", !.fadeInMs = 2,
                        !.repetitions = reps, !.interSweepSilence = 1,
                        !.leadSilence = 1] :
        st \in {"ess", "stepped", "square"}, eq \in {"", "none", "pink"},
        reps \in {0, 2}}

WorkerStart(type, params) ==
    [pc |-> "received", type |-> type, params |-> params, samples |-> <<>>,
     signal |-> <<>>, linearGain |-> OneW, reps |-> 0, leadSamples |-> 0,
     trailSamples |-> 0, channelMode |-> "", numChannels |-> 0,
     channels |-> <<>>, encoded |-> <<>>, fileSizeBytes |-> 0,
     inverse |-> <<>>, posted |-> <<>>, steps |-> <<>>]

InitWorker ==
    /\ wavReq = IdleRequest
    /\ wavCalls = <<>>
    /\ mls = MlsIdle
    /\ mlsKept = NoneKept
    /\ call = NoCall
    /\ wk \in {WorkerStart("generate", p) :
                  p \in LayoutParams \cup KindParams \cup MlsParams}
              \cup {WorkerStart("preview", p) : p \in PreviewParams}
              \cup {WorkerStart("stop", BaseParams)}

NextWorker ==
    \/ WorkerIgnore
    \/ WorkerGenerate
    \/ WorkerCallMLS
    \/ MLSBeginRep
    \/ MLSShift
    \/ MLSEndRep
    \/ MLSReturn
    \/ WorkerMLSReturned
    \/ WorkerFades
    \/ WorkerGain
    \/ WorkerRepeat
    \/ WorkerSilence
    \/ WorkerVisualize
    \/ WorkerChannels
    \/ \E t \in Times : WorkerEncode(t)
    \/ \E t \in Times : WorkerFinish(t)
    \/ GeneratePreview

SpecWorker == InitWorker /\ [][NextWorker]_vars

----------------------------------------------------------------------------
(* applyDither of js/utils.js.  A sample is an integer number of units of  *)
(* 1 / (8388608 * RandSteps), and Math.random() returns u / RandSteps for  *)
(* some u in 0 .. RandSteps - 1: a value of [0, 1).                        *)

RandSteps == 2

\* lsb = bitDepth === 16 ? 1 / 32768 : 1 / 8388608
Lsb(bitDepth) == IF bitDepth = 16 THEN 256 * RandSteps ELSE RandSteps

\* inSilence = i < leadSamples || i >= N - trailSamples
InSilence(i, N, leadSamples, trailSamples) ==
    i < leadSamples \/ i >= N - trailSamples

\* the loop body goes on to the addition whatever the scope
Dithers_Always(scope, inSilence) == TRUE

\* whether the loop body reaches the addition: neither `continue` is taken
Dithers(scope, inSilence) ==
    /\ ~(scope = "audio" /\ inSilence)
    /\ ~(scope = "silence" /\ ~inSilence)

\* (Math.random() + Math.random() - 1) * lsb for the two values u1 /
\* RandSteps and u2 / RandSteps
DitherValue(u1, u2, bitDepth) ==
    ((u1 + u2 - RandSteps) * Lsb(bitDepth)) \div RandSteps

----------------------------------------------------------------------------
(* Calls of applyFades and of applyDither on their own.                    *)

MaxSamples == 4

FadeTypes == {"none", "hanning", "linear"}

FadeCalls ==
    {[fn |-> "applyFades", pc |-> "start", samples |-> [k \in 1..N |-> Gen(k)], fadeInType |-> tin, fadeInSamples |-> lin, fadeOutType |-> tout, fadeOutSamples |-> lout, result |-> <<>>] : N \in 0..MaxSamples, tin \in FadeTypes, lin \in 0..(MaxSamples + 1), tout \in FadeTypes, lout \in 0..(MaxSamples + 1)}

DitherCalls ==
    {[fn |-> "applyDither", pc |-> "start", samples |-> [k \in 1..N |-> 1000 * k * RandSteps], bitDepth |-> b, scope |-> sc, leadSamples |-> lead, trailSamples |-> trail, i |-> 0, result |-> <<>>] : N \in 0..(MaxSamples - 1), b \in {16, 24, 32}, sc \in {"all", "audio", "silence"}, lead \in 0..2, trail \in 0..1}

\* Math.floor(i * step) with step = samples.length / maxPoints; for the
\* lengths and budgets of the model the floating-point product rounds to
\* the same integer as the exact quotient
WindowStart(i, N, maxPoints) == (i * N) \div maxPoints

\* the smallest and the largest sample of samples[start .. end-1], as the
\* inner loop of decimateForVisualization finds them; a window is never
\* empty, since the loop is reached only with step > 2
WindowMin(samples, start, end) ==
    CHOOSE v \in {samples[j + 1] : j \in start..(end - 1)} :
        \A j \in start..(end - 1) : v <= samples[j + 1]

WindowMax(samples, start, end) ==
    CHOOSE v \in {samples[j + 1] : j \in start..(end - 1)} :
        \A j \in start..(end - 1) : v >= samples[j + 1]

\* decimateForVisualization(samples, maxPoints)
decimateForVisualization(samples, maxPoints) ==
    IF Len(samples) <= maxPoints * 2 THEN samples
    ELSE [k \in 1..(maxPoints * 2) |->
             LET i == (k - 1) \div 2
                 start == WindowStart(i, Len(samples), maxPoints)
                 end == Min(WindowStart(i + 1, Len(samples), maxPoints), Len(samples))
             IN  IF k % 2 = 1 THEN WindowMin(samples, start, end)
                 ELSE WindowMax(samples, start, end)]

RECURSIVE SeqsUpTo(_, _)
SeqsUpTo(n, values) ==
    IF n = 0 THEN {<<>>}
    ELSE LET shorter == SeqsUpTo(n - 1, values)
         IN  shorter \cup {Append(q, v) : q \in {r \in shorter : Len(r) = n - 1}, v \in values}

\* the calls of decimateForVisualization: every array of up to
\* MaxSamples + 2 samples out of three values, with a budget of 1 to 3
\* points
DecimateCalls ==
    {[fn |-> "decimateForVisualization", pc |-> "start", samples |-> q, maxPoints |-> P, result |-> <<>>] : q \in SeqsUpTo(MaxSamples + 2, {-1, 0, 1}), P \in 1..3}

InitUtils ==
    /\ wavReq = IdleRequest
    /\ wavCalls = <<>>
    /\ mls = MlsIdle
    /\ mlsKept = NoneKept
    /\ wk = WkIdle
    /\ call \in FadeCalls \cup DitherCalls \cup DecimateCalls

\* a call of decimateForVisualization(samples, maxPoints)
Decimate ==
    /\ call.fn = "decimateForVisualization" /\ call.pc = "start"
    /\ call' = [call EXCEPT !.pc = "done", !.result = decimateForVisualization(call.samples, call.maxPoints)]
    /\ UNCHANGED <<wavVars, mls, mlsKept, wk>>

\* applyFades(samples, fadeInType, fadeInSamples, fadeOutType,
\*            fadeOutSamples)
ApplyFades ==
    /\ call.fn = "applyFades" /\ call.pc = "start"
    /\ call' = [call EXCEPT !.pc = "done", !.result = applyFades(call.samples, call.fadeInType, call.fadeInSamples, call.fadeOutType, call.fadeOutSamples)]
    /\ UNCHANGED <<wavVars, mls, mlsKept, wk>>

\* applyDither is entered: the array is dithered in place from i = 0 on
DitherEnter ==
    /\ call.fn = "applyDither" /\ call.pc = "start"
    /\ call' = [call EXCEPT !.pc = "loop", !.i = 0, !.result = call.samples]
    /\ UNCHANGED <<wavVars, mls, mlsKept, wk>>

\* an iteration that ends in one of the two `continue`s
DitherSkip ==
    /\ call.fn = "applyDither" /\ call.pc = "loop"
    /\ call.i < Len(call.samples)
    /\ ~Dithers(call.scope, InSilence(call.i, Len(call.samples), call.leadSamples, call.trailSamples))
    /\ call' = [call EXCEPT !.i = @ + 1]
    /\ UNCHANGED <<wavVars, mls, mlsKept, wk>>

\* an iteration that reaches samples[i] += (Math.random() + Math.random()
\* - 1) * lsb
DitherAdd(u1, u2) ==
    /\ call.fn = "applyDither" /\ call.pc = "loop"
    /\ call.i < Len(call.samples)
    /\ Dithers(call.scope, InSilence(call.i, Len(call.samples), call.leadSamples, call.trailSamples))
    /\ call' = [call EXCEPT !.i = @ + 1, !.result[call.i + 1] = @ + DitherValue(u1, u2, call.bitDepth)]
    /\ UNCHANGED <<wavVars, mls, mlsKept, wk>>

\* i = N: the loop ends and the call returns
DitherReturn ==
    /\ call.fn = "applyDither" /\ call.pc = "loop"
    /\ call.i >= Len(call.samples)
    /\ call' = [call EXCEPT !.pc = "done"]
    /\ UNCHANGED <<wavVars, mls, mlsKept, wk>>

NextUtils ==
    \/ ApplyFades
    \/ DitherEnter
    \/ DitherSkip
    \/ \E u1, u2 \in 0..(RandSteps - 1) : DitherAdd(u1, u2)
    \/ DitherReturn
    \/ Decimate

SpecUtils == InitUtils /\ [][NextUtils]_vars

----------------------------------------------------------------------------
(* The page (app.js, src/unnamed/part_003): the Generate and Preview       *)
(* buttons, the redrawing of the waveform, the worker's messages and the   *)
(* generation on the main thread.  `call` holds the state of the page and  *)
(* `wk` the worker the page started, or the last preview it computed.      *)

\* estimateFileSize(params) for a finite duration
estimateFileSize(p) ==
    LET bytesPerSample == p.bitDepth \div 8
        numChannels == IF p.channelMode = "mono" THEN 1 ELSE 2
        sweepSamples == IF p.signalType = "mls" THEN 2 ^ OrElse(p.mlsOrder, 16) - 1
                        ELSE MsToSamples(p.durationMs, p.sampleRate)
        leadSamples == MsToSamples(p.leadSilence, p.sampleRate)
        trailSamples == MsToSamples(p.trailSilence, p.sampleRate)
        reps == OrElse(p.repetitions, 1)
        interSilence == MsToSamples(p.interSweepSilence, p.sampleRate)
        totalSamples == sweepSamples * reps + interSilence * Max(0, reps - 1) + leadSamples + trailSamples
    IN  totalSamples * numChannels * bytesPerSample + 700

\* !isFinite(estimatedBytes) || estimatedBytes <= 0: an infinite duration
\* makes the estimate infinite
BadEstimate(p) ==
    \/ p.signalType # "mls" /\ ~p.durationFinite
    \/ estimateFileSize(p) <= 0

\* params.startFreq >= params.endFreq for the signals that sweep
BadFrequencies(p) ==
    p.signalType \in {"ess", "linear", "stepped"} /\ p.startFreq >= p.endFreq

\* the durations startGeneration and startPreview may give a request: the
\* one of the form, or for a stepped sine what either declaration of
\* steppedSineDuration returns
Durations(p) ==
    IF p.signalType = "stepped"
    THEN LET sp == [startFreq |-> p.startFreq, endFreq |-> p.endFreq, stepsPerOctave |-> p.stepsPerOctave, dwellMs |-> p.dwellMs, gapMs |-> p.gapMs, spacing |-> p.steppedSpacing, sampleRate |-> p.sampleRate]
         IN  {steppedSineDuration(sp), steppedSineDurationOfList(sp)}
    ELSE {p.durationMs}

NoResult == [steps |-> <<>>, samples |-> <<>>, channels |-> <<>>, codingHistory |-> <<>>, description |-> <<>>, inverse |-> <<>>]

PageStart(params) ==
    [fn |-> "page", pc |-> "idle", params |-> params, disabled |-> FALSE, last |-> "load", result |-> NoResult]

\* the try block of generateOnMainThread up to the import: the generator
\* and the steps of generatePreviewSamples at the full rate, without the
\* equalization
FallbackPipeline(p) ==
    PreviewOf(WorkerStart("fallback", [p EXCEPT !.eqCurve = ""]))

\* startGeneration(): the two guards, the question about the Nyquist
\* frequency, the buttons, and the worker or, when it cannot be made,
\* generateOnMainThread up to its timer
StartGeneration(workerMade, proceed) ==
    /\ call.fn = "page" /\ call.pc = "idle" /\ ~call.disabled
    /\ \E d \in Durations(call.params) :
       \E p \in {[call.params EXCEPT !.durationMs = d]} :
          IF \/ BadEstimate(p) \/ BadFrequencies(p)
             \/ (p.signalType \in {"ess", "linear", "stepped"} /\ 2 * p.endFreq > p.sampleRate /\ ~proceed)
          THEN /\ call' = [call EXCEPT !.last = "alert"]
               /\ wk' = wk
          ELSE IF workerMade
          THEN /\ call' = [call EXCEPT !.pc = "waiting", !.params = p, !.disabled = TRUE, !.last = "generate", !.result = NoResult]
               /\ wk' = WorkerStart("generate", p)
          ELSE /\ call' = [call EXCEPT !.pc = "scheduled", !.params = p, !.disabled = TRUE, !.last = "generate", !.result = NoResult]
               /\ wk' = wk
    /\ UNCHANGED <<wavVars, mls, mlsKept>>

\* generationWorker.onerror: the worker is terminated and
\* generateOnMainThread takes over, up to its timer
WorkerOnError ==
    /\ call.fn = "page" /\ call.pc = "waiting"
    /\ wk.pc \notin {"done", "terminated"}
    /\ wk' = [wk EXCEPT !.pc = "terminated"]
    /\ call' = [call EXCEPT !.pc = "scheduled", !.last = "onerror"]
    /\ UNCHANGED <<wavVars, mls, mlsKept>>

\* generationWorker.onmessage for the last message of the worker:
\* 'complete' starts the timer that gives the buttons back, 'error' gives
\* them back at once
WorkerOnTerminal ==
    /\ call.fn = "page" /\ call.pc = "waiting" /\ wk.pc = "done"
    /\ LET last == wk.posted[Len(wk.posted)]
       IN  IF last.type = "complete"
           THEN call' = [call EXCEPT !.pc = "completing", !.last = "complete"]
           ELSE call' = [call EXCEPT !.pc = "idle", !.disabled = FALSE, !.last = "error"]
    /\ UNCHANGED <<wavVars, mls, mlsKept, wk>>

\* the callback of setTimeout(..., 1500): the buttons are enabled
ReenableTimer ==
    /\ call.fn = "page" /\ call.pc = "completing"
    /\ call' = [call EXCEPT !.pc = "idle", !.disabled = FALSE]
    /\ UNCHANGED <<wavVars, mls, mlsKept, wk>>

\* the callback of the timer of generateOnMainThread: the try block up to
\* the import, or the catch block, which enables the buttons
FallbackRun ==
    /\ call.fn = "page" /\ call.pc = "scheduled"
    /\ \E w \in {FallbackPipeline(call.params)} :
          IF w.pc = "threw"
          THEN call' = [call EXCEPT !.pc = "idle", !.disabled = FALSE, !.last = "caught"]
          ELSE call' = [call EXCEPT !.pc = "importing", !.result = [NoResult EXCEPT !.steps = w.steps, !.samples = w.samples]]
    /\ UNCHANGED <<wavVars, mls, mlsKept, wk>>

\* the promise of import('./audio/wav-encoder.js'): its callback encodes
\* the padded samples with the channel mode alone and its own metadata
\* (the result keeps the sample data encodeWAV writes and the metadata),
\* and starts the timer that gives the buttons back; when the module does
\* not load, or the callback throws, the promise is rejected and nothing
\* handles it
FallbackEncode(fulfilled, t) ==
    /\ call.fn = "page" /\ call.pc = "importing"
    /\ IF fulfilled
       THEN \E p \in {call.params} :
            \E numChannels \in {IF p.channelMode = "mono" THEN 1 ELSE 2} :
            \E worker \in {BwfMetadata(p, numChannels, t)} :
            \E history \in {Chars.A \o (IF p.format = "float" THEN Chars.FLOAT ELSE Chars.PCM) \o Chars.F \o Decimal(p.sampleRate) \o Chars.W \o Decimal(p.bitDepth) \o Chars.T} :
            \E meta \in {[worker EXCEPT !.codingHistory = history]} :
            \E ep \in {[sampleRate |-> p.sampleRate, bitDepth |-> p.bitDepth, format |-> p.format, numChannels |-> numChannels, channelMode |-> p.channelMode, hasChannels |-> FALSE, channels |-> <<>>, hasSync |-> FALSE, syncChannel |-> <<>>, hasMeta |-> TRUE, bwfMetadata |-> meta]} :
                call' = [call EXCEPT !.pc = "completing", !.last = "fallback",
                                     !.result = [steps |-> call.result.steps \o <<"encodeWAV">>,
                                                 samples |-> call.result.samples,
                                                 channels |-> ChannelData(call.result.samples, ep),
                                                 codingHistory |-> history,
                                                 description |-> meta.description,
                                                 inverse |-> <<>>]]
       ELSE call' = [call EXCEPT !.pc = "rejected", !.last = "unhandled"]
    /\ UNCHANGED <<wavVars, mls, mlsKept, wk>>

\* startPreview(): the guard on the estimate, then buildPreviewChannels
StartPreview ==
    /\ call.fn = "page" /\ call.pc = "idle" /\ ~call.disabled
    /\ \E d \in Durations(call.params) :
       \E p \in {[call.params EXCEPT !.durationMs = d]} :
          IF BadEstimate(p)
          THEN /\ call' = [call EXCEPT !.last = "alert"]
               /\ wk' = wk
          ELSE /\ call' = [call EXCEPT !.last = "preview"]
               /\ wk' = PreviewOf(WorkerStart("preview", p))
    /\ UNCHANGED <<wavVars, mls, mlsKept>>

\* regenerateVisualization() while nothing plays: buildPreviewChannels on
\* the values of the form, inside a try block whose catch is empty
RegenerateVisualization ==
    /\ call.fn = "page" /\ call.pc = "idle"
    /\ call' = [call EXCEPT !.last = "visualization"]
    /\ wk' = PreviewOf(WorkerStart("visualization", call.params))
    /\ UNCHANGED <<wavVars, mls, mlsKept>>

\* the values of the form: signals, frequencies in and out of order and
\* above the Nyquist frequency, durations that are negative or infinite,
\* channel modes, the inverse filter
PageParams ==
    {[BaseParams EXCEPT !.signalType = sf[1], !.startFreq = sf[2], !.endFreq = sf[3],
                        !.durationMs = du[1], !.durationFinite = du[2],
                        !.channelMode = mode, !.generateInverse = gi,
                        !.repetitions = IF mode = "stereo-lrb" THEN 3 ELSE 1] :
        sf \in {<<"ess", 100, 400>>, <<"ess", 400, 100>>, <<"ess", 100, 800>>,
                <<"white", 100, 400>>,
                <<"stepped", 100, 400>>, <<"stepped", 400, 400>>},
        du \in {<<2, TRUE>>, <<-1, TRUE>>, <<-400, TRUE>>, <<2, FALSE>>},
        mode \in {"mono", "stereo-sync", "stereo-lrb"},
        gi \in BOOLEAN}

InitPage ==
    /\ wavReq = IdleRequest
    /\ wavCalls = <<>>
    /\ mls = MlsIdle
    /\ mlsKept = NoneKept
    /\ wk = WkIdle
    /\ call \in {PageStart(p) : p \in PageParams}

NextPage ==
    \/ \E workerMade, proceed \in BOOLEAN : StartGeneration(workerMade, proceed)
    \/ WorkerGenerate
    \/ WorkerFades
    \/ WorkerGain
    \/ WorkerRepeat
    \/ WorkerSilence
    \/ WorkerVisualize
    \/ WorkerChannels
    \/ \E t \in Times : WorkerEncode(t)
    \/ \E t \in Times : WorkerFinish(t)
    \/ WorkerOnError
    \/ WorkerOnTerminal
    \/ ReenableTimer
    \/ FallbackRun
    \/ \E fulfilled \in BOOLEAN : \E t \in Times : FallbackEncode(fulfilled, t)
    \/ StartPreview
    \/ RegenerateVisualization

SpecPage == InitPage /\ [][NextPage]_vars

\* what the browser is bound to run once it is enabled: the steps of a
\* worker that has its message, the handler of the worker's last message,
\* the callbacks of the timers, and the settling of the import promise one
\* way or the other.  At most one of them is enabled at a time.  The
\* clicks and the crash of a worker are not bound to happen
PageProgress ==
    \/ WorkerFades
    \/ WorkerGain
    \/ WorkerRepeat
    \/ WorkerSilence
    \/ WorkerVisualize
    \/ WorkerChannels
    \/ WorkerOnTerminal
    \/ ReenableTimer
    \/ FallbackRun
    \/ \E fulfilled \in BOOLEAN : \E t \in Times : FallbackEncode(fulfilled, t)

\* the worker is at WorkerGenerate, WorkerEncode or WorkerFinish.  Each of
\* them is enabled exactly in these states and leaves the state it is
\* enabled in, so that weak fairness of the three says that the worker is
\* again and again elsewhere
WorkerAtGeneratorOrEncoder == wk.pc \in {"received", "laidout", "encoded"}

\* the requests of the form for a sweep or a noise
InitPageLive ==
    /\ InitPage
    /\ call.params.signalType # "stepped"

SpecPageLive ==
    /\ InitPageLive /\ [][NextPage]_vars
    /\ WF_vars(PageProgress)
    /\ []<>~WorkerAtGeneratorOrEncoder

----------------------------------------------------------------------------
(* generateFilename and buildBwfDescription of js/audio/wav-encoder.js,     *)
(* called again and again for one request at the readings of the clock.    *)

NameChars ==
    [Hz |-> <<72, 122>>,
     k |-> <<107>>,
     point |-> <<46>>,
     underscore |-> <<95>>,
     wav |-> <<46, 119, 97, 118>>,
     ord |-> <<111, 114, 100>>,
     bit |-> <<98, 105, 116>>,
     float |-> <<102, 108, 111, 97, 116>>]

\* formatFreqForFilename(freq): whole kilohertz, kilohertz with one
\* decimal, or the number itself
formatFreqForFilename(freq) ==
    IF freq >= 1000 /\ freq % 1000 = 0
    THEN Decimal(freq \div 1000) \o NameChars.k
    ELSE IF freq >= 1000 /\ freq % 100 = 0
    THEN Decimal(freq \div 1000) \o NameChars.point \o Decimal((freq \div 100) % 10) \o NameChars.k
    ELSE Decimal(freq)

\* DEPTH_NAMES[params.bitDepth] || params.bitDepth + 'bit'
DepthName(bitDepth) ==
    IF bitDepth = 32 THEN Decimal(32) \o NameChars.float
    ELSE Decimal(bitDepth) \o NameChars.bit

\* parts.join('_')
RECURSIVE JoinUnderscore(_)
JoinUnderscore(parts) ==
    IF Len(parts) = 0 THEN <<>>
    ELSE IF Len(parts) = 1 THEN parts[1]
    ELSE parts[1] \o NameChars.underscore \o JoinUnderscore(Tail(parts))

\* generateFilename(params) when `new Date()` reads t
generateFilename(params, t) ==
    JoinUnderscore(<<SignalName(params.signalType),
                     formatFreqForFilename(params.sampleRate) \o NameChars.Hz,
                     formatFreqForFilename(params.startFreq) \o Chars.dash
                         \o formatFreqForFilename(params.endFreq) \o NameChars.Hz>>
                   \o (IF params.signalType = "mls"
                       THEN <<NameChars.ord \o Decimal(OrElse(params.mlsOrder, 16))>>
                       ELSE <<>>)
                   \o <<SecondsStr(params.durationMs) \o Chars.s,
                        DepthName(params.bitDepth),
                        DateStr(t)>>)
    \o NameChars.wav

\* the requests the strings are built for: the signals, the sample
\* formats and the sample rates that take each branch of
\* formatFreqForFilename
NameParams ==
    {[BaseParams EXCEPT !.signalType = st, !.sampleRate = sr,
                        !.bitDepth = fm[1], !.format = fm[2]] :
        st \in {"ess", "white", "mls"}, sr \in {500, 1000, 44100},
        fm \in {<<16, "pcm">>, <<32, "float">>}}

InitNames ==
    /\ wavReq = IdleRequest
    /\ wavCalls = <<>>
    /\ mls = MlsIdle
    /\ mlsKept = NoneKept
    /\ wk = WkIdle
    /\ call \in {[fn |-> "names", params |-> p, out |-> <<>>] : p \in NameParams}

\* a call of generateFilename(params) at the reading t of the clock
CallGenerateFilename(t) ==
    /\ call.fn = "names" /\ Len(call.out) < MaxCalls
    /\ call' = [call EXCEPT !.out = Append(@, [fn |-> "generateFilename", text |-> generateFilename(call.params, t)])]
    /\ UNCHANGED <<wavVars, mls, mlsKept, wk>>

\* a call of buildBwfDescription(params), which does not read the clock
CallBuildBwfDescription ==
    /\ call.fn = "names" /\ Len(call.out) < MaxCalls
    /\ call' = [call EXCEPT !.out = Append(@, [fn |-> "buildBwfDescription", text |-> buildBwfDescription(call.params)])]
    /\ UNCHANGED <<wavVars, mls, mlsKept, wk>>

NextNames ==
    \/ \E t \in Times : CallGenerateFilename(t)
    \/ CallBuildBwfDescription

SpecNames == InitNames /\ [][NextNames]_vars

----------------------------------------------------------------------------
(* generateExponentialSweep of js/generators/sweep.js, sample by sample.   *)

\* a sample that is NaN
NaN == [src |-> <<"nan", 0>>, by |-> <<>>]

\* Math.floor(sampleRate * duration) in place of Math.round
SweepSamples_Floor(sampleRate, durationMs) == (durationMs * sampleRate) \div 1000

\* N = Math.round(sampleRate * T)
SweepSamples(sampleRate, durationMs) == MathRound(durationMs * sampleRate, 1000)

\* samples[i] = Math.sin(phaseCoeff * (Math.exp(i / sampleRate / T *
\* lnRatio) - 1)) with lnRatio = Math.log(f2 / f1) and phaseCoeff = 2 * PI
\* * f1 * T / lnRatio.  lnRatio is 0 when f1 = f2 and infinite when f1 = 0,
\* and then phaseCoeff or the exponent is not finite and the phase is NaN;
\* otherwise the exponent is 0 at i = 0 and nowhere else, so the phase is
\* 0 there and Math.sin gives 0
SweepSample(i, f1, f2) ==
    IF f1 = f2 \/ f1 = 0 \/ f2 = 0 THEN NaN
    ELSE IF i = 0 THEN Zero
    ELSE Gen(i + 1)

\* generateExponentialSweep({startFreq, endFreq, sampleRate, duration})
generateExponentialSweep(p) ==
    [k \in 1..SweepSamples(p.sampleRate, p.durationMs) |-> SweepSample(k - 1, p.startFreq, p.endFreq)]

\* the requests: frequencies in order, equal, reversed and zero; durations
\* of no sample, of half a sample more than a whole number at 500 Hz, and
\* of one second
SweepCalls ==
    {[fn |-> "generateExponentialSweep", pc |-> "start", params |-> [startFreq |-> fr[1], endFreq |-> fr[2], sampleRate |-> sr, durationMs |-> d], result |-> <<>>] :
        fr \in {<<20, 20000>>, <<100, 400>>, <<400, 400>>, <<400, 100>>, <<0, 100>>},
        sr \in {500, 1000, 48000},
        d \in {0, 1, 2, 3, 1000}}

InitSweep ==
    /\ wavReq = IdleRequest
    /\ wavCalls = <<>>
    /\ mls = MlsIdle
    /\ mlsKept = NoneKept
    /\ wk = WkIdle
    /\ call \in SweepCalls

\* a call of generateExponentialSweep
GenerateSweep ==
    /\ call.fn = "generateExponentialSweep" /\ call.pc = "start"
    /\ call' = [call EXCEPT !.pc = "done", !.result = generateExponentialSweep(call.params)]
    /\ UNCHANGED <<wavVars, mls, mlsKept, wk>>

NextSweep == GenerateSweep

SpecSweep == InitSweep /\ [][NextSweep]_vars

----------------------------------------------------------------------------
(* The channel mode and the repetition count of the form (app.js,          *)
(* src/unnamed/part_003).  `raised` and `before` follow what the user sees: *)
(* whether the count now shown was raised by the page since the user last  *)
(* set it, and the count the user had before the first such raise; `due`   *)
(* is set by a switch away from the automatic modes that finds `raised`.   *)

\* what the repetitions field may hold: 0 stands for a field that does
\* not hold a positive number, which parseInt(...) || 1 reads as 1
FormReps == 0..(MaxWorkerReps + 2)

\* the channel modes the page knows
FormModes == ChannelModes \cup {"stereo-left", "stereo-right", "stereo-independent"}

FormStart(mode, reps) ==
    [fn |-> "form", channelMode |-> mode, repetitions |-> reps, autoRepsSet |-> FALSE, prevRepsBeforeAuto |-> 1, raised |-> FALSE, before |-> reps, due |-> FALSE]

\* the page as loaded: a mode without automatic repetitions and the count
\* the user has entered
InitForm ==
    /\ wavReq = IdleRequest
    /\ wavCalls = <<>>
    /\ mls = MlsIdle
    /\ mlsKept = NoneKept
    /\ wk = WkIdle
    /\ call \in {FormStart(mode, reps) : mode \in FormModes \ {"stereo-alternate", "stereo-lrb"}, reps \in FormReps}

\* the repetitions a mode asks for: 2 for stereo-alternate, 3 for
\* stereo-lrb
AutoReps(mode) == IF mode = "stereo-alternate" THEN 2 ELSE 3

\* the 'change' listener of the channel mode: handleChannelModeChange()
HandleChannelModeChange(mode) ==
    /\ call.fn = "form" /\ mode # call.channelMode
    /\ LET currentReps == OrElse(call.repetitions, 1)
       IN  IF mode \in {"stereo-alternate", "stereo-lrb"}
           THEN IF currentReps < AutoReps(mode)
                THEN call' = [call EXCEPT !.channelMode = mode,
                                          !.prevRepsBeforeAuto = currentReps,
                                          !.repetitions = AutoReps(mode),
                                          !.autoRepsSet = TRUE,
                                          !.before = IF call.raised THEN @ ELSE currentReps,
                                          !.raised = TRUE, !.due = FALSE]
                ELSE call' = [call EXCEPT !.channelMode = mode, !.due = FALSE]
           ELSE IF call.autoRepsSet
                THEN call' = [call EXCEPT !.channelMode = mode,
                                          !.repetitions = call.prevRepsBeforeAuto,
                                          !.autoRepsSet = FALSE,
                                          !.due = call.raised, !.raised = FALSE]
                ELSE call' = [call EXCEPT !.channelMode = mode,
                                          !.due = call.raised, !.raised = FALSE]
    /\ UNCHANGED <<wavVars, mls, mlsKept, wk>>

\* the user types a repetition count: the 'change' listener of the field
RepetitionsChange(reps) ==
    /\ call.fn = "form" /\ reps # call.repetitions
    /\ call' = [call EXCEPT !.repetitions = reps,
                            !.autoRepsSet = IF call.channelMode \in {"stereo-alternate", "stereo-lrb"} THEN FALSE ELSE @,
                            !.raised = FALSE, !.before = reps, !.due = FALSE]
    /\ UNCHANGED <<wavVars, mls, mlsKept, wk>>

NextForm ==
    \/ \E mode \in FormModes : HandleChannelModeChange(mode)
    \/ \E reps \in FormReps : RepetitionsChange(reps)

SpecForm == InitForm /\ [][NextForm]_vars

----------------------------------------------------------------------------
(* The preview player (src/js/audio/preview.js).  `nodes` are the buffer   *)
(* sources the player has created, in order of creation: each is started,  *)
(* stopped or ended, carries its onended handler or none, and knows the    *)
(* time its buffer runs out.  `audioBuffer` is the duration of the loaded  *)
(* buffer in clock ticks, 0 for none; `sourceNode` is an index into        *)
(* `nodes`, 0 for null.                                                    *)

MaxClock == 3       \* the audio clock runs from 0 to MaxClock
MaxNodes == 3       \* buffer sources one player creates

\* the durations handed to load(): 0 is an empty sample array
BufferDurations == 0..2

\* new PreviewPlayer()
PlayerNew ==
    [audioBuffer |-> 0, bufferRate |-> "none", sourceNode |-> 0, isPlaying |-> FALSE, startTime |-> 0, pauseOffset |-> 0, rafId |-> FALSE, nodes |-> <<>>]

\* sourceNode.onended = null; sourceNode.stop(): an ended source stays ended
NodeStopped(node) ==
    [node EXCEPT !.onended = FALSE, !.state = IF node.state = "started" THEN "stopped" ELSE node.state]

\* stop()
stop(p) ==
    [p EXCEPT !.nodes = IF p.sourceNode # 0 THEN [p.nodes EXCEPT ![p.sourceNode] = NodeStopped(p.nodes[p.sourceNode])] ELSE p.nodes,
              !.sourceNode = 0, !.isPlaying = FALSE, !.pauseOffset = 0, !.rafId = FALSE]

\* load(samples, sourceSampleRate): createBuffer refuses an empty buffer at
\* either rate, and load() ends in that exception after its stop(); a rate
\* the context does not support takes the resampling branch
load(p, dur, supported) ==
    IF dur = 0 THEN stop(p)
    ELSE [stop(p) EXCEPT !.audioBuffer = dur, !.bufferRate = IF supported THEN "source" ELSE "native", !.pauseOffset = 0]

\* the two early returns of play(), negated
CanPlay_Unloaded(p) == p.audioBuffer # 0

CanPlay(p) == p.audioBuffer # 0 /\ ~p.isPlaying

\* play()
play(p, now) ==
    IF ~CanPlay(p) THEN p
    ELSE [p EXCEPT !.nodes = Append(p.nodes, [state |-> "started", onended |-> TRUE, endsAt |-> now + Max(p.audioBuffer - p.pauseOffset, 0)]),
                   !.sourceNode = Len(p.nodes) + 1,
                   !.startTime = now - p.pauseOffset,
                   !.isPlaying = TRUE, !.rafId = TRUE]

\* pause()
pause(p, now) ==
    IF ~p.isPlaying \/ p.sourceNode = 0 THEN p
    ELSE [p EXCEPT !.pauseOffset = now - p.startTime,
                   !.nodes = [p.nodes EXCEPT ![p.sourceNode] = NodeStopped(p.nodes[p.sourceNode])],
                   !.sourceNode = 0, !.isPlaying = FALSE, !.rafId = FALSE]

\* the buffer of source n has run out: the source ends and its onended
\* handler, if it still has one, runs
ended(p, n) ==
    LET q == [p EXCEPT !.nodes = [p.nodes EXCEPT ![n] = [p.nodes[n] EXCEPT !.state = "ended"]]]
    IN  IF p.nodes[n].onended
        THEN [q EXCEPT !.isPlaying = FALSE, !.pauseOffset = 0, !.rafId = FALSE]
        ELSE q

InitPlayer ==
    /\ wavReq = IdleRequest
    /\ wavCalls = <<>>
    /\ mls = MlsIdle
    /\ mlsKept = NoneKept
    /\ wk = WkIdle
    /\ call = [fn |-> "player", p |-> PlayerNew, now |-> 0, last |-> "new", was |-> PlayerNew]

\* a call or an event takes the player from call.p to q
PlayerStep(op, q, now) ==
    call' = [call EXCEPT !.p = q, !.now = now, !.last = op, !.was = call.p]

PlayerLoad(dur, supported) ==
    /\ call.fn = "player"
    /\ PlayerStep("load", load(call.p, dur, supported), call.now)
    /\ UNCHANGED <<wavVars, mls, mlsKept, wk>>

PlayerPlay ==
    /\ call.fn = "player"
    /\ Len(call.p.nodes) < MaxNodes
    /\ PlayerStep("play", play(call.p, call.now), call.now)
    /\ UNCHANGED <<wavVars, mls, mlsKept, wk>>

PlayerPause ==
    /\ call.fn = "player"
    /\ PlayerStep("pause", pause(call.p, call.now), call.now)
    /\ UNCHANGED <<wavVars, mls, mlsKept, wk>>

PlayerStop ==
    /\ call.fn = "player"
    /\ PlayerStep("stop", stop(call.p), call.now)
    /\ UNCHANGED <<wavVars, mls, mlsKept, wk>>

\* the 'ended' event of a source that has played to the end of its buffer
PlayerEnded(n) ==
    /\ call.fn = "player"
    /\ call.p.nodes[n].state = "started"
    /\ call.now >= call.p.nodes[n].endsAt
    /\ PlayerStep("ended", ended(call.p, n), call.now)
    /\ UNCHANGED <<wavVars, mls, mlsKept, wk>>

\* ctx.currentTime advances
PlayerClock ==
    /\ call.fn = "player"
    /\ call.now < MaxClock
    /\ PlayerStep("clock", call.p, call.now + 1)
    /\ UNCHANGED <<wavVars, mls, mlsKept, wk>>

NextPlayer ==
    \/ \E dur \in BufferDurations : \E supported \in BOOLEAN : PlayerLoad(dur, supported)
    \/ PlayerPlay
    \/ PlayerPause
    \/ PlayerStop
    \/ \E n \in 1..Len(call.p.nodes) : PlayerEnded(n)
    \/ PlayerClock

SpecPlayer == InitPlayer /\ [][NextPlayer]_vars
----------------------------------------------------------------------------
(* Reading a file back *)

\* the chunks of a RIFF file from offset `off` on, following the size
\* fields and the pad byte after an odd payload: [id, at, size]
RECURSIVE ParseChunks(_, _)
ParseChunks(buf, off) ==
    IF off + 8 > Len(buf) THEN <<>>
    ELSE LET size == GetU32(buf, off + 4)
         IN  <<[id |-> GetTag(buf, off), at |-> off, size |-> size]>>
             \o ParseChunks(buf, off + 8 + size + (size % 2))

Chunks(buf) == ParseChunks(buf, 12)
ChunkIds(buf) == [i \in 1..Len(Chunks(buf)) |-> Chunks(buf)[i].id]
HasChunk(buf, id) == \E i \in 1..Len(Chunks(buf)) : Chunks(buf)[i].id = id
ChunkOf(buf, id) ==
    Chunks(buf)[CHOOSE i \in 1..Len(Chunks(buf)) : Chunks(buf)[i].id = id]

\* the payload of the data chunk, as far as the file holds it
DataChunk(buf) ==
    LET c == ChunkOf(buf, DATA)
    IN  SubSeq(buf, c.at + 9, Min(c.at + 8 + c.size, Len(buf)))

\* the signed integer stored little-endian in `width` bytes at `off`
RECURSIVE GetUnsigned(_, _, _)
GetUnsigned(buf, off, width) ==
    IF width = 0 THEN 0
    ELSE buf[off + 1] + 256 * GetUnsigned(buf, off + 1, width - 1)
GetSigned(buf, off, width) ==
    LET u == GetUnsigned(buf, off, width)
    IN  IF u >= 2 ^ (8 * width - 1) THEN u - 2 ^ (8 * width) ELSE u

\* the three combinations the encoder supports
Supported(params) ==
    \/ params.bitDepth = 16 /\ params.format = "pcm"
    \/ params.bitDepth = 24 /\ params.format = "pcm"
    \/ params.bitDepth = 32 /\ params.format = "float"

\* the calls made so far that returned a buffer
Returned == {i \in 1..Len(wavCalls) : wavCalls[i].returned}

----------------------------------------------------------------------------
(* Claims about the container encoder *)

\* the bytes one frame takes in the request of this run
FrameBytes == wavReq.params.numChannels * (wavReq.params.bitDepth \div 8)

\* C1: for every supported format, channel count, frame count and metadata
\* choice, the returned buffer is 8 bytes longer than its RIFF size field
\* says, the writes end exactly at the end of the buffer, the size field of
\* every chunk written (bext, fmt, fact, data) is the number of payload
\* bytes written for it, the data size is frames x channels x bitDepth / 8,
\* and the sizes read back give the frame count and the bit depth.
C1_SizesExact ==
    \A i \in Returned :
        Supported(wavReq.params) =>
            LET c == wavCalls[i]
                buf == c.buffer
                bextSize == GetU32(buf, c.at.bext + 4)
                fmtChunk == ChunkOf(buf, FMT)
                dataChunk == ChunkOf(buf, DATA)
            IN  /\ Len(buf) = 8 + GetU32(buf, 4)
                /\ c.at.end = Len(buf)
                /\ wavReq.params.hasMeta =>
                       /\ GetTag(buf, c.at.bext) = BEXT
                       /\ bextSize + (bextSize % 2) = c.at.fmt - c.at.bext - 8
                /\ ~wavReq.params.hasMeta => c.at.fmt = c.at.bext
                /\ GetTag(buf, c.at.fmt) = FMT
                /\ GetU32(buf, c.at.fmt + 4) = c.at.fact - c.at.fmt - 8
                /\ c.at.data > c.at.fact =>
                       /\ GetTag(buf, c.at.fact) = FACT
                       /\ GetU32(buf, c.at.fact + 4) = c.at.data - c.at.fact - 8
                /\ GetTag(buf, c.at.data) = DATA
                /\ GetU32(buf, c.at.data + 4) = c.at.end - c.at.data - 8
                /\ GetU32(buf, c.at.data + 4) = Len(wavReq.samples) * FrameBytes
                /\ HasChunk(buf, FMT) /\ HasChunk(buf, DATA)
                /\ GetU16(buf, fmtChunk.at + 22) = wavReq.params.bitDepth
                /\ dataChunk.size = Len(wavReq.samples) * GetU16(buf, fmtChunk.at + 20)

\* witness of C1: a 24-bit stereo file with an odd-length metadata payload
\* and two frames has been returned
C1_Witness ==
    \E i \in Returned :
        /\ wavReq.params.bitDepth = 24 /\ wavReq.params.format = "pcm"
        /\ wavReq.params.numChannels = 2
        /\ wavReq.params.hasMeta
        /\ GetU32(wavCalls[i].buffer, wavCalls[i].at.bext + 4) % 2 = 1
        /\ Len(wavReq.samples) = 2

\* C2: every chunk encodeWAV writes is padded to an even length, the data
\* chunk included: every chunk header starts at an even offset and the
\* file length is even.
C2_EvenPadded ==
    \A i \in Returned :
        Supported(wavReq.params) =>
            /\ Len(wavCalls[i].buffer) % 2 = 0
            /\ \A k \in 1..Len(Chunks(wavCalls[i].buffer)) :
                   Chunks(wavCalls[i].buffer)[k].at % 2 = 0

\* C3: the fmt chunk has a 16-byte payload with format tag 0x0001 for
\* 16-bit PCM, and for 24-bit PCM and 32-bit float a 40-byte payload with
\* tag 0xFFFE, cbSize 22, valid bits = bit depth, channel mask 0x4 (mono)
\* or 0x3 (stereo) and sub-format code 1 (PCM) or 3 (float).
C3_FmtChunk ==
    \A i \in Returned :
        Supported(wavReq.params) =>
            LET buf == wavCalls[i].buffer
                f == ChunkOf(buf, FMT).at
                bd == wavReq.params.bitDepth
            IN  /\ HasChunk(buf, FMT)
                /\ bd = 16 =>
                       /\ GetU32(buf, f + 4) = 16
                       /\ GetU16(buf, f + 8) = 1
                /\ bd # 16 =>
                       /\ GetU32(buf, f + 4) = 40
                       /\ GetU16(buf, f + 8) = 65534
                       /\ GetU16(buf, f + 24) = 22
                       /\ GetU16(buf, f + 26) = bd
                       /\ GetU32(buf, f + 28) =
                              (IF wavReq.params.numChannels = 1 THEN 4 ELSE 3)
                       /\ GetU32(buf, f + 32) = (IF bd = 24 THEN 1 ELSE 3)

\* witness of C3: a 32-bit float mono file and its extensible fmt chunk
C3_Witness ==
    \E i \in Returned :
        /\ wavReq.params.bitDepth = 32 /\ wavReq.params.format = "float"
        /\ wavReq.params.numChannels = 1
        /\ GetU16(wavCalls[i].buffer, wavCalls[i].at.fmt + 8) = 65534

\* C4: a fact chunk (12 bytes, size field 4, payload = frame count) stands
\* between fmt and data exactly when the bit depth is 24 or 32, never for
\* 16-bit PCM; a 16-bit PCM file without metadata is RIFF header, fmt and
\* data only, and its samples begin at offset 44.
C4_FactChunk ==
    \A i \in Returned :
        Supported(wavReq.params) =>
            LET buf == wavCalls[i].buffer
                ids == ChunkIds(buf)
                lead == IF wavReq.params.hasMeta THEN <<BEXT>> ELSE <<>>
                fact == ChunkOf(buf, FACT)
            IN  /\ HasChunk(buf, FACT) <=> wavReq.params.bitDepth \in {24, 32}
                /\ HasChunk(buf, FACT) =>
                       /\ ids = lead \o <<FMT, FACT, DATA>>
                       /\ fact.size = 4
                       /\ ChunkOf(buf, DATA).at - fact.at = 12
                       /\ GetU32(buf, fact.at + 8) = Len(wavReq.samples)
                /\ ~HasChunk(buf, FACT) => ids = lead \o <<FMT, DATA>>
                /\ (wavReq.params.bitDepth = 16 /\ ~wavReq.params.hasMeta) =>
                       /\ ChunkOf(buf, DATA).at + 8 = 44
                       /\ wavCalls[i].at.samples = 44

\* witness of C4: a 24-bit file with its fact chunk, and frames to count
C4_Witness ==
    \E i \in Returned :
        /\ wavReq.params.bitDepth = 24 /\ wavReq.params.format = "pcm"
        /\ HasChunk(wavCalls[i].buffer, FACT)
        /\ Len(wavReq.samples) = 2

\* C5: a call with a bit-depth/format pair other than 16-bit PCM, 24-bit
\* PCM or 32-bit float fails and returns no buffer.
C5_UnsupportedFails ==
    \A i \in 1..Len(wavCalls) :
        ~Supported(wavReq.params) => ~wavCalls[i].returned

\* the clamped sample is the sample itself inside [-1, 1] and the nearer
\* end outside
IsClamp(c, n) ==
    \/ -SampleDen <= n /\ n <= SampleDen /\ c = n
    \/ n < -SampleDen /\ c = -SampleDen
    \/ n > SampleDen /\ c = SampleDen

\* r is the integer nearest to p / q, a tie going up: -1/2 < r - p/q <= 1/2
IsRounded(r, p, q) == -q < 2 * (r * q - p) /\ 2 * (r * q - p) <= q

\* C6: for every sample, also outside [-1, 1], the b-bit PCM encoding
\* (b = 16 or 24) read back as a little-endian two's complement integer is
\* round(clamp(sample, -1, 1) x (2^(b-1) - 1)) and lies in the signed b-bit
\* range.
C6_PcmEncoding ==
    \A i \in Returned :
        wavReq.params.bitDepth \in {16, 24} =>
            LET b == wavReq.params.bitDepth
                nc == wavReq.params.numChannels
                cd == ChannelData(wavReq.samples, wavReq.params)
            IN  \A f \in 1..Len(wavReq.samples), ch \in 1..nc :
                    LET v == GetSigned(wavCalls[i].buffer,
                                 wavCalls[i].at.samples
                                 + ((f - 1) * nc + (ch - 1)) * (b \div 8),
                                 b \div 8)
                    IN  /\ -(2 ^ (b - 1)) <= v /\ v <= 2 ^ (b - 1) - 1
                        /\ \E c \in -SampleDen..SampleDen :
                               /\ IsClamp(c, cd[ch][f])
                               /\ IsRounded(v, c * (2 ^ (b - 1) - 1), SampleDen)

\* witness of C6: a 24-bit file holding a sample below -1, stored as the
\* two's complement of -8388607
C6_Witness ==
    \E i \in Returned :
        /\ wavReq.params.bitDepth = 24
        /\ wavReq.samples[1] < -SampleDen
        /\ GetUnsigned(wavCalls[i].buffer, wavCalls[i].at.samples, 3)
               = 16777216 - 8388607

\* C7: two calls of encodeWAV on the same channel data and parameters give
\* byte-identical data chunks, with or without a progress callback and
\* whatever the clock puts into the timestamped metadata fields.
C7_SameDataChunk ==
    \A i \in Returned, j \in Returned :
        DataChunk(wavCalls[i].buffer) = DataChunk(wavCalls[j].buffer)

\* witness of C7: two calls on a request with metadata and samples, one
\* with a progress callback and one without, at different clock readings
C7_Witness ==
    \E i \in Returned, j \in Returned :
        /\ wavCalls[i].onProgress /\ ~wavCalls[j].onProgress
        /\ wavCalls[i].time # wavCalls[j].time
        /\ wavCalls[i].buffer # wavCalls[j].buffer
        /\ wavReq.params.hasMeta
        /\ Len(wavReq.samples) = 2
        /\ Supported(wavReq.params)

----------------------------------------------------------------------------
(* Claims about the MLS generator *)

\* C8: for every order k in 10..18 the shift register, started from all
\* ones, never holds zero and is back at all ones after exactly 2^k - 1
\* shifts and not earlier (so its 2^k - 1 states are pairwise distinct and
\* the sequence has least period 2^k - 1).
C8_MaximalPeriod ==
    (mls.pc = "inner" /\ mls.order \in 10..18) =>
        /\ mls.register # 0
        /\ mls.register = 2 ^ mls.order - 1 <=> mls.i \in {0, 2 ^ mls.order - 1}

\* C9: for every order k in 10..18, generateMLS returns exactly
\* (2^k - 1) x repetitions samples, each written once and in order, every
\* sample is exactly +1.0 or -1.0, and both values occur.
C9_LengthAndValues ==
    (mls.pc = "done" /\ mls.order \in 10..18) =>
        /\ mls.totalLength = (2 ^ mls.order - 1) * mls.repetitions
        /\ mls.written = mls.totalLength
        /\ mls.sequential
        /\ mls.plus + mls.minus = mls.totalLength
        /\ mls.plus > 0 /\ mls.minus > 0
        /\ Kept(mls.order) =>
               /\ Len(mls.samples) = mls.totalLength
               /\ \A j \in 1..Len(mls.samples) : mls.samples[j] \in {1, -1}
               /\ \E j \in 1..Len(mls.samples) : mls.samples[j] = 1
               /\ \E j \in 1..Len(mls.samples) : mls.samples[j] = -1

\* witness of C9: a call of order 10 has returned its 1023 samples, of
\* both signs
C9_Witness ==
    /\ mls.pc = "done"
    /\ mls.order = 10
    /\ Len(mls.samples) = 1023
    /\ mls.plus > 0 /\ mls.minus > 0

\* the circular autocorrelation at `lag` of the first n samples of smp, all
\* +1 or -1: the agreeing pairs minus the disagreeing ones
Autocorrelation(smp, n, lag) ==
    n - 2 * Cardinality({j \in 0..(n - 1) : smp[j + 1] # smp[((j + lag) % n) + 1]})

\* C10: the circular autocorrelation of one generated period of 2^k - 1
\* samples is 2^k - 1 at lag 0 and near zero at every other lag (checked
\* for the orders whose samples are kept, order 10 among them; near zero
\* is taken generously, as at most an eighth of the peak).
C10_Autocorrelation ==
    (mls.pc = "done" /\ mls.order \in 10..18 /\ Kept(mls.order)) =>
        /\ Autocorrelation(mls.samples, mls.seqLength, 0) = mls.seqLength
        /\ \A lag \in 1..(mls.seqLength - 1) :
               LET r == Autocorrelation(mls.samples, mls.seqLength, lag)
               IN  8 * r <= mls.seqLength /\ -8 * r <= mls.seqLength

----------------------------------------------------------------------------
(* Claims on the worker and the pipeline *)

\* C11: generateMLS called with an order outside 10..18 throws before a
\* sample array is allocated or returned; when this happens inside the
\* worker the run ends with an 'error' message, and no file is encoded or
\* posted.
C11_UnsupportedOrder ==
    /\ (mls.pc # "idle" /\ mls.order \notin 10..18) =>
           (mls.pc = "threw" /\ "samples" \notin DOMAIN mls)
    /\ (/\ wk.pc # "idle" /\ wk.type = "generate"
        /\ wk.params.signalType = "mls"
        /\ OrElse(wk.params.mlsOrder, 16) \notin 10..18) =>
           /\ wk.samples = <<>> /\ wk.encoded = <<>> /\ wk.fileSizeBytes = 0
           /\ \A j \in 1..Len(wk.posted) : wk.posted[j].type = "error"
           /\ wk.pc \in {"received", "generating", "done"}
           /\ wk.pc = "done" => Len(wk.posted) = 1

C11_Witness ==
    /\ wk.pc = "done" /\ wk.params.signalType = "mls" /\ wk.params.mlsOrder = 9
    /\ mls.pc = "threw" /\ mls.order = 9
    /\ Len(wk.posted) = 1 /\ wk.posted[1].type = "error"

\* C12: generateMLS keeps no state between periods or calls: the array of
\* a call with R repetitions is R periods back to back, every sample +1 or
\* -1, each period equal to the first sample for sample; and the first
\* period equals that of the first call made with the same order, whatever
\* calls were made in between.
C12_NoStateKept ==
    (mls.pc = "done" /\ Kept(mls.order)) =>
        /\ Len(mls.samples) = mls.seqLength * mls.repetitions
        /\ \A k \in 1..mls.seqLength :
              /\ mls.samples[k] \in {-1, 1}
              /\ \A r \in 0..(mls.repetitions - 1) :
                     mls.samples[r * mls.seqLength + k] = mls.samples[k]
        /\ mlsKept.order = mls.order =>
               SubSeq(mls.samples, 1, mls.seqLength) = mlsKept.first

C12_Witness ==
    /\ mls.pc = "done" /\ mls.repetitions = 2
    /\ mlsKept.order = mls.order /\ mlsKept.calls = 2

\* the place of a step in the order of the pipeline: fade shaping,
\* equalization, gain, repetition, silence padding, dither, channel layout,
\* encoding
StepRank(step) ==
    CASE step = "applyFades" -> 1
      [] step = "applyEQ" -> 2
      [] step = "applyGain" -> 3
      [] step = "repeatWithSilence" -> 4
      [] step = "addSilence" -> 5
      [] step = "applyDither" -> 6
      [] step = "channels" -> 7
      [] step = "encodeWAV" -> 8

\* C15 as stated: the steps of a run are applied in the fixed order, each
\* at most once and none before a step that precedes it in the order, so
\* the places of the steps run so far rise strictly.
C15_FixedOrder ==
    \A i, j \in 1..Len(wk.steps) :
        i < j => StepRank(wk.steps[i]) < StepRank(wk.steps[j])

\* C15, amended: no step runs before a step that precedes it in the order,
\* and each step runs at most once, but for the encoder, which runs a
\* second time, last of all, when the inverse filter of an exponential
\* sweep is asked for.
C15_OrderedOnce ==
    LET n == Len(wk.steps)
        second == wk.pc = "done" /\ wk.params.generateInverse
                  /\ wk.params.signalType = "ess"
    IN  \A i, j \in 1..n :
            i < j =>
                \/ StepRank(wk.steps[i]) < StepRank(wk.steps[j])
                \/ /\ second /\ j = n /\ i = n - 1
                   /\ wk.steps[i] = "encodeWAV" /\ wk.steps[j] = "encodeWAV"

C15_Witness ==
    /\ wk.pc = "done" /\ wk.params.generateInverse
    /\ wk.steps = <<"applyFades", "applyGain", "addSilence", "encodeWAV",
                    "encodeWAV">>

\* the length over which an edge of applyFades acts: min(L, N), or 0 for
\* an edge of kind 'none' or of length 0
EdgeLen(kind, L, N) == IF kind # "none" /\ L > 0 THEN Min(L, N) ELSE 0

\* C16: applyFades multiplies the first min(Lin, N) samples by the fade-in
\* window and the last min(Lout, N) samples by the fade-out window, and
\* leaves every other sample as it was; an edge of kind 'none' or of length
\* 0 changes nothing, and with both edges so the array is unchanged.
C16_FadesOnlyEdges ==
    (call.fn = "applyFades" /\ call.pc = "done") =>
        LET x == call.samples
            y == call.result
            N == Len(x)
            lenIn == EdgeLen(call.fadeInType, call.fadeInSamples, N)
            lenOut == EdgeLen(call.fadeOutType, call.fadeOutSamples, N)
            winIn == IF call.fadeInType = "hanning" THEN halfHanningFadeIn(lenIn) ELSE linearFadeIn(lenIn)
            winOut == IF call.fadeOutType = "hanning" THEN halfHanningFadeOut(lenOut) ELSE linearFadeOut(lenOut)
            AfterIn(i) == IF i <= lenIn THEN Mul(x[i], winIn[i]) ELSE x[i]
        IN  /\ Len(y) = N
            /\ \A i \in 1..N :
                   /\ y[i] = IF i > N - lenOut THEN Mul(AfterIn(i), winOut[i - (N - lenOut)]) ELSE AfterIn(i)
                   /\ (i > lenIn /\ i <= N - lenOut) => y[i] = x[i]
            /\ (lenIn = 0 /\ lenOut = 0) => y = x

\* a fade-in asked for over 5 samples of an array of 3: the window is laid
\* over the 3 samples, from 0 at the first to 1 at the last
C16_Witness ==
    /\ call.fn = "applyFades" /\ call.pc = "done"
    /\ Len(call.samples) = 3
    /\ call.fadeInType = "hanning" /\ call.fadeInSamples = 5
    /\ call.fadeOutType = "none"
    /\ call.result[1] = Zero
    /\ call.result[2] = Mul(call.samples[2], <<"hanningIn", 1, 2>>)
    /\ call.result[3] = call.samples[3]

\* the states of a run in which the signal has been repeated and padded
Padded == wk.pc \in {"padded", "visualized", "laidout", "encoded", "done", "previewed"} /\ wk.steps # <<>>

\* C17: after repetition and padding of a signal of N samples with R
\* repetitions, gap S, lead L and trail T the array has L + N x R + S x
\* (R - 1) + T samples (L + N + T for R <= 1); copy r lies at L + r x (N +
\* S) .. L + r x (N + S) + N - 1 and equals the signal; every other sample
\* is zero, and no gap follows the last copy.
C17_RepeatedAndPadded ==
    Padded =>
        LET N == Len(wk.signal)
            R == IF wk.reps <= 1 THEN 1 ELSE wk.reps
            S == MsToSamples(wk.params.interSweepSilence, wk.params.sampleRate)
            L == wk.leadSamples
            T == wk.trailSamples
            Copy(k) == {r \in 0..(R - 1) : L + r * (N + S) <= k /\ k <= L + r * (N + S) + N - 1}
        IN  /\ Len(wk.samples) = L + N * R + S * (R - 1) + T
            /\ \A k \in 0..(Len(wk.samples) - 1) :
                   /\ \A r \in Copy(k) : wk.samples[k + 1] = wk.signal[k - (L + r * (N + S)) + 1]
                   /\ Copy(k) = {} => wk.samples[k + 1] = Zero
            /\ \A r \in 0..(R - 1) : \A n \in 1..N : wk.samples[L + r * (N + S) + n] = wk.signal[n]

\* three copies of a signal of 2 samples, a gap of 1, a lead of 1 and a
\* trail of 2: 11 samples, the last copy at 7 and 8 and the trail after it
C17_Witness ==
    /\ wk.pc = "padded" /\ wk.reps = 3 /\ Len(wk.signal) = 2
    /\ wk.params.interSweepSilence = 1
    /\ wk.leadSamples = 1 /\ wk.trailSamples = 2
    /\ Len(wk.samples) = 11
    /\ wk.samples[9] = wk.signal[2] /\ wk.samples[9] # Zero
    /\ wk.samples[10] = Zero

\* the change of sample k (from 1) of a dither call so far
DitherChange(k) == call.result[k] - call.samples[k]

\* whether sample k (from 1) lies in the leading or the trailing silence
Silence(k) == k - 1 < call.leadSamples \/ k - 1 >= Len(call.samples) - call.trailSamples

C19_BoundariesCoincide ==
    (/\ wk.pc \in {"laidout", "encoded", "done"}
     /\ wk.channelMode \in {"stereo-alternate", "stereo-lrb"}
     /\ wk.reps > 1) =>
        LET N == Len(wk.signal)
            S == MsToSamples(wk.params.interSweepSilence, wk.params.sampleRate)
            L == wk.leadSamples
            left == wk.channels[1]
            right == wk.channels[2]
            OnLeft(r) == IF wk.channelMode = "stereo-alternate" THEN r % 2 = 0 ELSE r % 3 \in {0, 2}
            OnRight(r) == IF wk.channelMode = "stereo-alternate" THEN r % 2 = 1 ELSE r % 3 \in {1, 2}
            Copy(k) == {r \in 0..(wk.reps - 1) : L + r * (N + S) <= k /\ k < L + r * (N + S) + N}
        IN  /\ Len(wk.channels) = 2
            /\ Len(left) = Len(wk.samples) /\ Len(right) = Len(wk.samples)
            /\ \A k \in 0..(Len(wk.samples) - 1) :
                   /\ \A r \in Copy(k) :
                          /\ left[k + 1] = IF OnLeft(r) THEN wk.signal[k - (L + r * (N + S)) + 1] ELSE Zero
                          /\ right[k + 1] = IF OnRight(r) THEN wk.signal[k - (L + r * (N + S)) + 1] ELSE Zero
                   /\ Copy(k) = {} => (left[k + 1] = Zero /\ right[k + 1] = Zero)

\* three copies of 2 samples in lrb mode with a gap of 1, a lead of 1 and
\* a trail of 2: the second copy on the right alone, the third on both
C19_Witness ==
    /\ wk.pc = "laidout" /\ wk.channelMode = "stereo-lrb"
    /\ wk.reps = 3 /\ Len(wk.signal) = 2
    /\ wk.params.interSweepSilence = 1
    /\ wk.leadSamples = 1 /\ wk.trailSamples = 2
    /\ wk.channels[1][6] = Zero /\ wk.channels[2][6] = wk.signal[2]
    /\ wk.channels[1][9] = wk.signal[2] /\ wk.channels[2][9] = wk.signal[2]
    /\ wk.signal[2] # Zero

\* C20: in stereo-sync mode the first channel is the processed signal and
\* the second holds exactly one non-zero sample, an impulse of amplitude
\* 1.0 at the index of the first signal sample (the number of lead
\* samples), whatever the output level and the request; every other sample
\* of the second channel is zero.
C20_UnitImpulse ==
    (/\ wk.pc \in {"laidout", "encoded", "done"}
     /\ wk.channelMode = "stereo-sync") =>
        /\ Len(wk.channels) = 2
        /\ wk.channels[1] = wk.samples
        /\ Len(wk.channels[2]) = Len(wk.samples)
        /\ \A k \in 1..Len(wk.samples) :
               wk.channels[2][k] = IF k - 1 = wk.leadSamples THEN Exact(1) ELSE Zero
        /\ \E k \in 1..Len(wk.samples) : wk.channels[2][k] # Zero

\* a <= b for two fractions <<numerator, denominator>>
FractionLeq(a, b) == a[1] * b[2] <= b[1] * a[2]

\* the range of fractions allotted to the stretch of the handler that ends
\* at `pc`: generation, fade to silence, visualization, encoding, the
\* inverse filter
PhaseRange(pc) ==
    CASE pc = "generated" -> <<<<0, 1>>, <<4, 10>>>>
      [] pc \in {"faded", "gained", "repeated", "padded"} -> <<<<4, 10>>, <<55, 100>>>>
      [] pc = "visualized" -> <<<<55, 100>>, <<60, 100>>>>
      [] pc = "encoded" -> <<<<60, 100>>, <<90, 100>>>>
      [] OTHER -> <<<<90, 100>>, <<1, 1>>>>

\* the fractions of the progress messages among `messages`, in order
Fractions(messages) ==
    LET P(m) == m.type = "progress"
        ps == SelectSeq(messages, P)
    IN  [j \in 1..Len(ps) |-> ps[j].fraction]

\* C21: in a run the fractions of the progress messages never decrease and
\* lie in [0, 1]; those posted in a phase lie in its range (up to 0.4 in
\* generation, 0.4 to 0.55 for fades, gain, repetition and silence, 0.55 to
\* 0.60 for the visualization, 0.60 to 0.90 in encoding, 0.90 to 1.0 for
\* the inverse filter), and the last one before 'complete' is 1.0.
C21_ProgressRanges ==
    [][LET old == Len(wk.posted)
           new == SubSeq(wk'.posted, old + 1, Len(wk'.posted))
           all == Fractions(wk'.posted)
       IN  /\ \A j \in 1..Len(Fractions(new)) :
                  /\ FractionLeq(PhaseRange(wk'.pc)[1], Fractions(new)[j])
                  /\ FractionLeq(Fractions(new)[j], PhaseRange(wk'.pc)[2])
           /\ \A j \in 1..Len(all) :
                  /\ FractionLeq(<<0, 1>>, all[j]) /\ FractionLeq(all[j], <<1, 1>>)
                  /\ j > 1 => FractionLeq(all[j - 1], all[j])
           /\ \A j \in 1..Len(new) :
                  new[j].type = "complete" =>
                      /\ Len(all) > 0 /\ all[Len(all)] = <<1, 1>>
                      /\ j > 1 /\ new[j - 1].type = "progress"]_vars

\* a finished run of the MLS of order 10: the reports of the generator and
\* of the encoder, scaled, among the fractions, 0.4 first reached by the
\* generator's last report, 1.0 last
C21_Witness ==
    /\ wk.pc = "done" /\ wk.params.signalType = "mls"
    /\ Len(wk.posted) > 0 /\ wk.posted[Len(wk.posted)].type = "complete"
    /\ Len(Fractions(wk.posted)) >= 10
    /\ Fractions(wk.posted)[1] = <<0, 10 * 1023>>
    /\ \E j \in 1..Len(wk.posted) : wk.posted[j] = Progress(60 * 1023 + 30 * 0, 100 * 1023)
    /\ Fractions(wk.posted)[Len(Fractions(wk.posted))] = <<1, 1>>

\* the places in the messages of the run that hold a terminal message
Terminals == {j \in 1..Len(wk.posted) : wk.posted[j].type \in {"complete", "error"}}

\* C22: a 'generate' message ends with exactly one terminal message, the
\* last message of the run: 'complete' with the whole encoded file, or
\* 'error'; before the handler returns there is none, and a run in which a
\* stage threw posts no encoded file, neither the signal nor the inverse
\* filter.
C22_OneTerminal ==
    (wk.type = "generate") =>
        /\ wk.pc # "done" => Terminals = {}
        /\ wk.pc = "done" =>
               /\ Terminals = {Len(wk.posted)}
               /\ LET last == wk.posted[Len(wk.posted)]
                  IN  IF last.type = "complete"
                      THEN /\ last.fileSizeBytes = wk.fileSizeBytes
                           /\ last.fileSizeBytes >= 44 + Len(wk.samples) * wk.numChannels * BytesPerSample(wk.params.bitDepth)
                           /\ last.totalSamples = Len(wk.samples)
                           /\ "encodeWAV" \in {wk.steps[j] : j \in 1..Len(wk.steps)}
                      ELSE /\ last.fileSizeBytes = 0 /\ last.inverseBytes = 0
                           /\ wk.encoded = <<>> /\ wk.inverse = <<>>
                           /\ wk.fileSizeBytes = 0
                           /\ \A j \in 1..Len(wk.posted) : wk.posted[j].type # "visualization"

\* a run ended by the signal type the switch does not know: 'error' is the
\* one message after the progress of no phase
C22_Witness ==
    /\ wk.type = "generate" /\ wk.pc = "done"
    /\ wk.params.signalType = "square"
    /\ Len(wk.posted) = 1 /\ wk.posted[1].type = "error"
    /\ wk.steps = <<>>

\* a request the page is to turn away: a sweep or a stepped sine whose
\* start frequency is not below its end frequency, or an estimated size
\* that is not finite or not positive
Malformed(p) ==
    \/ BadFrequencies(p)
    \/ \A d \in Durations(p) : BadEstimate([p EXCEPT !.durationMs = d])

\* C23: a request with start frequency >= end frequency for a sweep or a
\* stepped sine, or with an estimated size that is not finite or <= 0, is
\* turned away before a generator or a step of the pipeline runs, on every
\* way in: the worker, the main thread, the preview and the redrawing of
\* the waveform.
C23_RejectedEarly ==
    (call.fn = "page" /\ Malformed(call.params)) => wk = WkIdle

\* C24: generateFilename and buildBwfDescription are pure functions of the
\* request and its duration: two calls of the same function for the same
\* request return the same string, whenever they are made, on different
\* days too.
C24_SameStrings ==
    call.fn = "names" =>
        \A i, j \in 1..Len(call.out) :
            call.out[i].fn = call.out[j].fn => call.out[i].text = call.out[j].text

\* the i-th of P consecutive windows of equal width over N samples, as the
\* set of sample indices from 1
EqualWindow(i, N, P) == {j \in 1..N : (i * N) \div P < j /\ j <= ((i + 1) * N) \div P}

\* C25: for N >= 1 samples and a budget of P >= 1 points,
\* decimateForVisualization returns exactly 2P values; values 2i and 2i+1
\* are the minimum and the maximum of the i-th of P consecutive
\* equal-width windows covering all N samples, and min <= max in each pair.
C25_MinMaxPairs ==
    (call.fn = "decimateForVisualization" /\ call.pc = "done" /\ Len(call.samples) >= 1) =>
        /\ Len(call.result) = 2 * call.maxPoints
        /\ \A i \in 0..(call.maxPoints - 1) :
              LET w == EqualWindow(i, Len(call.samples), call.maxPoints)
              IN  /\ w # {}
                  /\ \A j \in w : call.result[2 * i + 1] <= call.samples[j] /\ call.samples[j] <= call.result[2 * i + 2]
                  /\ \E j \in w : call.result[2 * i + 1] = call.samples[j]
                  /\ \E j \in w : call.result[2 * i + 2] = call.samples[j]
                  /\ call.result[2 * i + 1] <= call.result[2 * i + 2]

C27_SameAsWorker ==
    (/\ call.fn = "page" /\ call.last = "fallback"
     /\ wk.pc = "done" /\ wk.params = call.params
     /\ wk.posted[Len(wk.posted)].type = "complete") =>
        /\ call.result.steps = wk.steps
        /\ call.result.channels = wk.encoded
        /\ \A t \in Times :
              LET meta == BwfMetadata(wk.params, wk.numChannels, t)
              IN  /\ call.result.codingHistory = meta.codingHistory
                  /\ call.result.description = meta.description
        /\ call.result.inverse = wk.inverse

\* C28: once a generation has started and the Generate and Preview buttons
\* are disabled, every outcome enables them again in the end: the worker's
\* 'complete', its 'error', a crash of the worker followed by the
\* generation on the main thread, a worker that cannot be created, and an
\* exception or a module that does not load during the generation or the
\* encoding on the main thread.
C28_ButtonsComeBack ==
    (call.fn = "page" /\ call.disabled) ~> (call.fn = "page" /\ ~call.disabled)

\* C29: when a switch to stereo-alternate or stereo-lrb has raised the
\* repetition count (to 2 or 3), a switch to any other mode without a
\* manual edit of the count in between restores the count the user had
\* before the first automatic raise, also after both automatic modes in
\* sequence: mono with 1 repetition, alternate, lrb, mono ends with 1.
C29_CountRestored ==
    (call.fn = "form" /\ call.due) =>
        OrElse(call.repetitions, 1) = OrElse(call.before, 1)


\* the sources of the player that are started and neither stopped nor ended
LiveSources == {n \in 1..Len(call.p.nodes) : call.p.nodes[n].state = "started"}

\* C30: after any sequence of load, play, pause and stop calls and natural
\* ends of playback, at most one buffer source is started and not yet
\* stopped or ended, and isPlaying is true exactly when there is one; a
\* play() while playing or with nothing loaded changes nothing; stop() and
\* load() leave isPlaying false and the position at 0.
C30_OneSource ==
    call.fn = "player" =>
        /\ Cardinality(LiveSources) <= 1
        /\ call.p.isPlaying <=> LiveSources # {}
        /\ (call.last = "play" /\ (call.was.isPlaying \/ call.was.audioBuffer = 0)) => call.p = call.was
        /\ call.last \in {"stop", "load"} => (~call.p.isPlaying /\ call.p.pauseOffset = 0)

\* playback resumed after a pause: one source stopped, one started
C30_Witness ==
    /\ call.fn = "player" /\ call.last = "play"
    /\ call.p.isPlaying /\ ~call.was.isPlaying
    /\ \E n \in 1..Len(call.p.nodes) : call.p.nodes[n].state = "stopped"
    /\ LiveSources = {call.p.sourceNode}

====
